---- MODULE Spec2Model ----
(***************************************************************************)
(* Model of decide.mask.mask_processor.MaskPostProcessor, the mask algebra *)
(* of the DECIDE pipeline (remove_islands_thr, combine_binary_masks,       *)
(* remove_overlapping_parts), and of decide.dcm.rtstruct.RTStruct, the     *)
(* structure set with its ROI registry and its contour rasterizer.         *)
(*                                                                         *)
(* A mask is a SimpleITK image of pixel type UInt8 whose voxels are 0 or   *)
(* 1 (the type rtstruct.py:137 and the casts of mask_processor.py          *)
(* produce); it is modelled by its geometry and the set of its voxels that *)
(* are 1.  Every image also carries the identity of the Python object that *)
(* holds it (obj): k >= 1 for the k-th in-memory argument of the call, 0   *)
(* for an object the call allocated itself.                                *)
(*                                                                         *)
(* Thresholds are exact rationals thr / ThrDen.                            *)
(*                                                                         *)
(* An RTStruct object (self) lives on after its construction and takes any *)
(* sequence of method calls; the state keeps the object together with the  *)
(* last call made on it and what that call left behind.                    *)
(***************************************************************************)
EXTENDS Integers, Sequences, FiniteSets, TLC

VARIABLES pc, call, heap, outcome, warnings, trace, written, self

vars == <<pc, call, heap, outcome, warnings, trace, written, self>>

(***************************************************************************)
(* Bounds                                                                  *)
(***************************************************************************)
\* extent along x of the volumes given to remove_islands_thr (NX x 2 x 2)
NX == 2
\* longest list given to combine_binary_masks
MaxMasks == 3
\* thresholds are the rationals k / ThrDen, k in -1 .. ThrDen + 1
ThrDen == 2

(***************************************************************************)
(* Grid geometry: size, spacing, origin, direction                         *)
(***************************************************************************)
IslandSize == <<NX, 2, 2>>
\* the list operations work voxel by voxel: their volumes are rows of two voxels
RowSize == <<2, 1, 1>>
ShortRowSize == <<1, 1, 1>>

UnitSpacing == <<1, 1, 1>>
ThickSpacing == <<1, 1, 2>>
ZeroOrigin == <<0, 0, 0>>
ShiftedOrigin == <<0, 0, 1>>
IdentityDirection == <<1, 0, 0, 0, 1, 0, 0, 0, 1>>
FlippedDirection == <<-1, 0, 0, 0, -1, 0, 0, 0, 1>>

Geometry(size, spacing, origin, direction) ==
    [size |-> size, spacing |-> spacing, origin |-> origin, direction |-> direction]

RowGeometry == Geometry(RowSize, UnitSpacing, ZeroOrigin, IdentityDirection)

\* the row geometry and the four geometries that differ from it in one field
RowGeometries ==
    { RowGeometry,
      Geometry(ShortRowSize, UnitSpacing, ZeroOrigin, IdentityDirection),
      Geometry(RowSize, ThickSpacing, ZeroOrigin, IdentityDirection),
      Geometry(RowSize, UnitSpacing, ShiftedOrigin, IdentityDirection),
      Geometry(RowSize, UnitSpacing, ZeroOrigin, FlippedDirection) }

\* the volumes given to remove_islands_thr lie on a grid that differs from
\* the default grid of a new image in spacing, origin and direction
IslandGeometries ==
    { Geometry(IslandSize, ThickSpacing, ShiftedOrigin, FlippedDirection) }

GridVoxels(size) ==
    { <<x, y, z>> : x \in 0 .. size[1] - 1, y \in 0 .. size[2] - 1, z \in 0 .. size[3] - 1 }

(***************************************************************************)
(* Images, Python objects, None                                            *)
(***************************************************************************)
NoGeometry == Geometry(<<0, 0, 0>>, <<0, 0, 0>>, <<0, 0, 0>>, <<0, 0, 0, 0, 0, 0, 0, 0, 0>>)

\* Python's None where an image is expected
NoneImage == [geom |-> NoGeometry, vox |-> {}, obj |-> -1]

IsNone(image) == image.obj = -1

Image(geom, vox, obj) == [geom |-> geom, vox |-> vox, obj |-> obj]

\* a new object holding the same image
Fresh(image) == Image(image.geom, image.vox, 0)

\* every mask on one of the geometries
MasksOn(geoms) ==
    UNION { { Image(g, v, 0) : v \in SUBSET GridVoxels(g.size) } : g \in geoms }

\* Python's False and True where an image is expected
PyFalse == [geom |-> NoGeometry, vox |-> {}, obj |-> -2]

PyTrue == [geom |-> NoGeometry, vox |-> {}, obj |-> -3]

IsImage(value) == value.obj >= 0

\* no RTStruct object has been constructed
NoObject == [rtstruct |-> <<>>, roi_dict |-> <<>>, referenced_image |-> NoneImage,
             metadata |-> NoGeometry]

(***************************************************************************)
(* Results of a call                                                       *)
(***************************************************************************)
Return(value) == [kind |-> "return", exc |-> "", value |-> value]

Raise(exc) == [kind |-> "raise", exc |-> exc, value |-> NoneImage]

NoOutcome == [kind |-> "pending", exc |-> "", value |-> NoneImage]

\* what a call leaves behind: how it ended, the warnings it emitted, the file
\* system and labelling steps it took, the image it wrote, the caller's objects
Run(o, w, t, f, h) == [outcome |-> o, warnings |-> w, trace |-> t, written |-> f, heap |-> h]

(***************************************************************************)
(* SimpleITK                                                               *)
(***************************************************************************)
\* sitk.Cast(image, sitk.sitkUInt8): a new image, same geometry, same 0/1 voxels
Cast(image) == Image(image.geom, image.vox, 0)

\* a voxelwise AND where the OR belongs
OrAsAnd(a, b) == Image(a.geom, a.vox \cap b.vox, 0)

\* an OR that drops its second operand
OrKeepsFirst(a, b) == Image(a.geom, a.vox, 0)

\* sitk.Or(a, b): voxelwise OR, on the first operand's grid
Or(a, b) == Image(a.geom, a.vox \cup b.vox, 0)

\* sitk.And(a, b): voxelwise AND, on the first operand's grid
And(a, b) == Image(a.geom, a.vox \cap b.vox, 0)

\* an inversion that inverts nothing
BinaryNotAsCopy(image) == Image(image.geom, image.vox, 0)

\* sitk.BinaryNot(image): foreground 1 becomes 0 and every other voxel 1
BinaryNot(image) == Image(image.geom, GridVoxels(image.geom.size) \ image.vox, 0)

\* sitk.BinaryThreshold(image, 0.5, 1.5, 1, 0): 1 where 0.5 <= voxel <= 1.5
BinaryThreshold(image) == Image(image.geom, image.vox, 0)

\* sitk.Equal(a, b): 1 where the two images agree
Equal(a, b) ==
    Image(a.geom, { v \in GridVoxels(a.geom.size) : (v \in a.vox) <=> (v \in b.vox) }, 0)

\* bool(image): an Image has __len__ (its number of pixels) and no __bool__
Truthy(image) == Cardinality(GridVoxels(image.geom.size)) > 0

\* sitk.Image(size, sitk.sitkUInt8): all zero, default spacing, origin, direction
NewImage(size) == Image(Geometry(size, UnitSpacing, ZeroOrigin, IdentityDirection), {}, 0)

\* StatisticsImageFilter.GetSum()
GetSum(image) == Cardinality(image.vox)

\* target.CopyInformation(source): origin, spacing and direction are set on
\* the target object itself
CopyInformation(target, source) ==
    Image(Geometry(target.geom.size, source.geom.spacing, source.geom.origin,
                   source.geom.direction), target.vox, target.obj)

\* the caller's objects after target.CopyInformation(source)
HeapAfterCopyInformation(h, target, source) ==
    IF target.obj \in DOMAIN h
    THEN [h EXCEPT ![target.obj] = CopyInformation(target, source)]
    ELSE h

(***************************************************************************)
(* Connected components                                                    *)
(***************************************************************************)
\* the position of a voxel in the raster scan of the volume (x runs fastest)
RasterIndex(v, size) == v[1] + size[1] * (v[2] + size[2] * v[3])

Abs(n) == IF n < 0 THEN -n ELSE n

\* fullyConnected=True, which the call does not pass
FullyConnectedOn == TRUE

\* the fullyConnected argument of sitk.ConnectedComponent, left at its default
FullyConnected == FALSE

\* whether the component filter joins voxels v and w: they share a face, or
\* with fullyConnected they share at least an edge or a corner
Neighbours(v, w) ==
    /\ w # v
    /\ \A i \in 1 .. 3 : Abs(w[i] - v[i]) <= 1
    /\ FullyConnected \/ Abs(w[1] - v[1]) + Abs(w[2] - v[2]) + Abs(w[3] - v[3]) = 1

RECURSIVE Flood(_, _)
Flood(seen, foreground) ==
    LET grown == seen \cup { w \in foreground \ seen : \E u \in seen : Neighbours(u, w) }
    IN  IF grown = seen THEN seen ELSE Flood(grown, foreground)

RECURSIVE LabelComponents(_, _, _)
LabelComponents(rest, size, comps) ==
    IF rest = {} THEN comps
    ELSE LET seed == CHOOSE v \in rest :
                         \A w \in rest : RasterIndex(v, size) <= RasterIndex(w, size)
             comp == Flood({seed}, rest)
         IN  LabelComponents(rest \ comp, size, Append(comps, comp))

\* a labelling that takes the background for an object
ConnectedComponentOfBackground(image) ==
    [geom |-> image.geom,
     comps |-> LabelComponents(GridVoxels(image.geom.size) \ image.vox, image.geom.size, <<>>)]

\* sitk.ConnectedComponent(image): the label image, as the sequence of its
\* components; label k is the k-th component met in raster order
ConnectedComponent(image) ==
    [geom |-> image.geom, comps |-> LabelComponents(image.vox, image.geom.size, <<>>)]

\* LabelShapeStatisticsImageFilter.GetLabels()
GetLabels(cc) == [k \in 1 .. Len(cc.comps) |-> k]

\* LabelShapeStatisticsImageFilter.GetPhysicalSize(label): voxels times voxel volume
GetPhysicalSize(cc, label) ==
    Cardinality(cc.comps[label]) * cc.geom.spacing[1] * cc.geom.spacing[2] * cc.geom.spacing[3]

\* sitk.Equal(connected_components, label): the mask of one component
EqualLabel(cc, label) == Image(cc.geom, cc.comps[label], 0)

MaxOf(S) == CHOOSE m \in S : \A n \in S : n <= m

(***************************************************************************)
(* Files                                                                   *)
(***************************************************************************)
\* An argument is an in-memory image ("mem") or a path: to a readable image
\* file ("file"), to nothing ("missing"), or to a file sitk.ReadImage rejects
\* ("corrupt").  An output path is absent ("none"), writable ("ok") or not ("bad").
ItemKinds == {"mem", "file", "missing", "corrupt"}

OutputPaths == {"none", "ok", "bad"}

Item(kind, img) == [kind |-> kind, img |-> img]

\* isinstance / os.path.exists / sitk.ReadImage of argument idx
LoadImage(item, idx) ==
    CASE item.kind = "mem" ->
           [exc |-> "", image |-> Image(item.img.geom, item.img.vox, idx), trace |-> <<>>]
      [] item.kind = "missing" ->
           [exc |-> "FileNotFoundError", image |-> NoneImage, trace |-> << <<"exists", idx>> >>]
      [] item.kind = "corrupt" ->
           [exc |-> "IOError", image |-> NoneImage,
            trace |-> << <<"exists", idx>>, <<"read", idx>> >>]
      [] OTHER ->
           [exc |-> "", image |-> Fresh(item.img),
            trace |-> << <<"exists", idx>>, <<"read", idx>> >>]

\* the caller's in-memory objects, by argument position
HeapOf(items) ==
    [k \in 1 .. Len(items) |->
        IF items[k].kind = "mem" THEN Image(items[k].img.geom, items[k].img.vox, k)
        ELSE NoneImage]

(***************************************************************************)
(* MaskPostProcessor.remove_islands_thr                                    *)
(***************************************************************************)
\* a range check without its upper end
ThrInRangeLowerOnly(thr) == 0 <= thr

\* 0 <= thr <= 1
ThrInRange(thr) == 0 <= thr /\ thr <= ThrDen

\* volume > max_volume * thr
MeetsThresholdStrict(volume, max_volume, thr) == volume * ThrDen > max_volume * thr

\* volume >= max_volume * thr
MeetsThreshold(volume, max_volume, thr) == volume * ThrDen >= max_volume * thr

RECURSIVE OrLabels(_, _, _)
\* for label in valid_labels: result_image = sitk.Or(result_image, label_mask)
OrLabels(result_image, cc, valid_labels) ==
    IF valid_labels = <<>> THEN result_image
    ELSE OrLabels(Or(result_image, EqualLabel(cc, Head(valid_labels))), cc, Tail(valid_labels))

\* the handler of the outer try: three error types go to the caller, any
\* other error becomes a warning and the function falls off its end
IslandsExcept(exc, w, t, f, h) ==
    IF exc \in {"FileNotFoundError", "IOError", "ValueError"}
    THEN Run(Raise(exc), w, t, f, h)
    ELSE Run(Return(NoneImage), Append(w, <<"error_occurred", 0>>), t, f, h)

remove_islands_thr(input_data, output_path, thr, h) ==
    IF ~ThrInRange(thr) THEN Run(Raise("ValueError"), <<>>, <<>>, NoneImage, h)
    ELSE
    LET loaded == LoadImage(input_data, 1) IN
    IF loaded.exc # "" THEN IslandsExcept(loaded.exc, <<>>, loaded.trace, NoneImage, h)
    ELSE
    LET binary_check == BinaryThreshold(loaded.image)
        image == IF ~Truthy(Equal(loaded.image, binary_check))
                 THEN binary_check ELSE loaded.image
        connected_components == ConnectedComponent(image)
        labelled == Append(loaded.trace, <<"label", 1>>)
        labels == GetLabels(connected_components)
    IN
    IF labels = <<>> THEN
        IF output_path # "none" THEN
            IF output_path = "bad"
            THEN IslandsExcept("RuntimeError", <<>>,
                               labelled \o << <<"mkdir", 0>>, <<"write", 0>> >>, NoneImage, h)
            ELSE Run(Return(NoneImage), <<>>,
                     labelled \o << <<"mkdir", 0>>, <<"write", 0>> >>, Fresh(image), h)
        ELSE Run(Return(image), <<>>, labelled, NoneImage, h)
    ELSE
    LET volumes == [k \in 1 .. Len(labels) |-> GetPhysicalSize(connected_components, labels[k])]
        max_volume == MaxOf({ volumes[k] : k \in 1 .. Len(volumes) })
        valid_labels == SelectSeq(labels, LAMBDA l : MeetsThreshold(volumes[l], max_volume, thr))
        blank == NewImage(image.geom.size)
        h1 == HeapAfterCopyInformation(h, blank, image)
        result_image == OrLabels(CopyInformation(blank, image), connected_components, valid_labels)
    IN
    IF output_path # "none" THEN
        IF output_path = "bad"
        THEN IslandsExcept("IOError", <<>>,
                           labelled \o << <<"mkdir", 0>>, <<"write", 0>> >>, NoneImage, h1)
        ELSE Run(Return(NoneImage), <<>>,
                 labelled \o << <<"mkdir", 0>>, <<"write", 0>> >>, Fresh(result_image), h1)
    ELSE Run(Return(result_image), <<>>, labelled, NoneImage, h1)

(***************************************************************************)
(* Saving or returning a result                                            *)
(***************************************************************************)
\* if output_path: mkdir, sitk.WriteImage (a failure is raised as IOError),
\* return None; else: return the image
SaveOrReturn(result, output_path, w, t, h) ==
    IF output_path # "none" THEN
        IF output_path = "bad"
        THEN Run(Raise("IOError"), w, t \o << <<"mkdir", 0>>, <<"write", 0>> >>, NoneImage, h)
        ELSE Run(Return(NoneImage), w, t \o << <<"mkdir", 0>>, <<"write", 0>> >>,
                 Fresh(result), h)
    ELSE Run(Return(result), w, t, NoneImage, h)

(***************************************************************************)
(* MaskPostProcessor.combine_binary_masks                                  *)
(***************************************************************************)
\* the empty-list check left out
EmptyInputNever(input_data) == FALSE

\* not input_data
EmptyInput(input_data) == Len(input_data) = 0

\* the comparison without the origin
GeometryDiffersIgnoringOrigin(image, reference_image) ==
    \/ image.geom.size # reference_image.geom.size
    \/ image.geom.spacing # reference_image.geom.spacing
    \/ image.geom.direction # reference_image.geom.direction

\* size, spacing, origin or direction differs from the reference image's
GeometryDiffers(image, reference_image) ==
    \/ image.geom.size # reference_image.geom.size
    \/ image.geom.spacing # reference_image.geom.spacing
    \/ image.geom.origin # reference_image.geom.origin
    \/ image.geom.direction # reference_image.geom.direction

\* the emptiness test left out
IsEmptyMaskNever(image) == FALSE

\* stats.GetSum() == 0
IsEmptyMask(image) == GetSum(image) = 0

CombineStart ==
    [exc |-> "", reference_image |-> NoneImage, result_image |-> NoneImage,
     warnings |-> <<>>, trace |-> <<>>]

RECURSIVE CombineLoop(_, _, _)
\* for idx, item in enumerate(input_data); positions are counted from 1 here
CombineLoop(input_data, idx, st) ==
    IF idx > Len(input_data) THEN st
    ELSE
    LET loaded == LoadImage(input_data[idx], idx)
        t == st.trace \o loaded.trace
        image == loaded.image
    IN
    IF loaded.exc # "" THEN [st EXCEPT !.exc = loaded.exc, !.trace = t]
    ELSE IF idx = 1 THEN
        CombineLoop(input_data, idx + 1,
            [exc |-> "", reference_image |-> image, result_image |-> Cast(image),
             warnings |-> IF IsEmptyMask(image)
                          THEN Append(st.warnings, <<"first_empty", idx>>)
                          ELSE st.warnings,
             trace |-> t])
    ELSE IF GeometryDiffers(image, st.reference_image) THEN
        [st EXCEPT !.exc = "RuntimeError", !.trace = t]
    ELSE IF IsEmptyMask(image) THEN
        CombineLoop(input_data, idx + 1,
            [st EXCEPT !.warnings = Append(st.warnings, <<"empty", idx>>), !.trace = t])
    ELSE
        CombineLoop(input_data, idx + 1,
            [st EXCEPT !.result_image = Or(st.result_image, Cast(image)), !.trace = t])

combine_binary_masks(input_data, output_path, h) ==
    IF EmptyInput(input_data) THEN Run(Raise("ValueError"), <<>>, <<>>, NoneImage, h)
    ELSE
    LET st == CombineLoop(input_data, 1, CombineStart) IN
    IF st.exc # "" THEN Run(Raise(st.exc), st.warnings, st.trace, NoneImage, h)
    ELSE
    \* "result_image" not in locals(): the loop never assigned it
    LET unbound == IsNone(st.result_image)
        w == IF unbound THEN Append(st.warnings, <<"all_empty", 0>>) ELSE st.warnings
    IN
    IF unbound /\ IsNone(st.reference_image)
    THEN Run(Raise("AttributeError"), w, st.trace, NoneImage, h)
    ELSE
    LET made == IF unbound
                THEN CopyInformation(NewImage(st.reference_image.geom.size), st.reference_image)
                ELSE st.result_image
        h1 == HeapAfterCopyInformation(h, made, st.reference_image)
        result_image == CopyInformation(made, st.reference_image)
    IN  SaveOrReturn(result_image, output_path, w, st.trace, h1)

(***************************************************************************)
(* MaskPostProcessor.remove_overlapping_parts                              *)
(***************************************************************************)
remove_overlapping_parts(mask_1, mask_2, output_path, h) ==
    LET loaded_1 == LoadImage(mask_1, 1) IN
    IF loaded_1.exc # "" THEN Run(Raise(loaded_1.exc), <<>>, loaded_1.trace, NoneImage, h)
    ELSE
    LET loaded_2 == LoadImage(mask_2, 2)
        t == loaded_1.trace \o loaded_2.trace
    IN
    IF loaded_2.exc # "" THEN Run(Raise(loaded_2.exc), <<>>, t, NoneImage, h)
    ELSE IF GeometryDiffers(loaded_1.image, loaded_2.image)
    THEN Run(Raise("RuntimeError"), <<>>, t, NoneImage, h)
    ELSE
    LET mask_1_uint8 == Cast(loaded_1.image)
        mask_2_uint8 == Cast(loaded_2.image)
        w1 == IF IsEmptyMask(mask_1_uint8) THEN << <<"first_empty", 1>> >> ELSE <<>>
        w2 == IF IsEmptyMask(mask_2_uint8) THEN Append(w1, <<"second_empty", 2>>) ELSE w1
        made == IF IsEmptyMask(mask_2_uint8)
                THEN mask_1_uint8
                ELSE And(mask_1_uint8, BinaryNot(mask_2_uint8))
        h1 == HeapAfterCopyInformation(h, made, loaded_1.image)
        result_mask == CopyInformation(made, loaded_1.image)
    IN  SaveOrReturn(result_mask, output_path, w2, t, h1)

(***************************************************************************)
(* The calls a caller can make                                             *)
(***************************************************************************)
Thresholds == -1 .. ThrDen + 1

Call(op, input_data, output_path, thr) ==
    [op |-> op, input_data |-> input_data, output_path |-> output_path, thr |-> thr]

IslandMasks == MasksOn(IslandGeometries)

RowMasks == MasksOn(RowGeometries)

IslandItems ==
    { Item(k, m) : k \in {"mem", "file"}, m \in IslandMasks }
        \cup { Item("missing", NoneImage), Item("corrupt", NoneImage) }

\* lists of n masks of which at most one lies on another grid than the first
ImageLists(n) ==
    UNION { LET same == [1 .. n -> MasksOn({g})]
            IN  same \cup { [l EXCEPT ![i] = m] :
                              l \in same, i \in 2 .. n, m \in MasksOn(RowGeometries \ {g}) }
            : g \in RowGeometries }

\* a list as arguments: all in memory or all files, and among files at most
\* one bad path (bad = <<position, kind>>, position 0 for none)
BadChoices(n, kind) ==
    { <<0, "none">> } \cup
        (IF kind = "file" THEN (1 .. n) \X {"missing", "corrupt"} ELSE {})

AsItems(l, kind, bad) ==
    [i \in 1 .. Len(l) |-> IF i = bad[1] THEN Item(bad[2], NoneImage) ELSE Item(kind, l[i])]

(***************************************************************************)
(* State machine: a caller holds its arguments, makes one call, and is     *)
(* left with the call's outcome                                            *)
(***************************************************************************)
Start(c) ==
    /\ pc = "ready"
    /\ call = c
    /\ heap = HeapOf(c.input_data)
    /\ outcome = NoOutcome
    /\ warnings = <<>>
    /\ trace = <<>>
    /\ written = NoneImage
    /\ self = NoObject

InitIslands ==
    \E item \in IslandItems, o \in OutputPaths, thr \in Thresholds :
        Start(Call("remove_islands_thr", <<item>>, o, thr))

InitCombine ==
    \E n \in 0 .. MaxMasks :
        \E l \in ImageLists(n), kind \in {"mem", "file"}, o \in OutputPaths :
            \E bad \in BadChoices(n, kind) :
                Start(Call("combine_binary_masks", AsItems(l, kind, bad), o, 0))

InitOverlap ==
    \E l \in ImageLists(2), kind \in {"mem", "file"}, o \in OutputPaths :
        \E bad \in BadChoices(2, kind) :
            Start(Call("remove_overlapping_parts", AsItems(l, kind, bad), o, 0))

Finish(r) ==
    /\ pc' = "done"
    /\ outcome' = r.outcome
    /\ warnings' = r.warnings
    /\ trace' = r.trace
    /\ written' = r.written
    /\ heap' = r.heap
    /\ UNCHANGED <<call, self>>

RemoveIslandsThr ==
    /\ pc = "ready"
    /\ call.op = "remove_islands_thr"
    /\ Finish(remove_islands_thr(call.input_data[1], call.output_path, call.thr, heap))

CombineBinaryMasks ==
    /\ pc = "ready"
    /\ call.op = "combine_binary_masks"
    /\ Finish(combine_binary_masks(call.input_data, call.output_path, heap))

RemoveOverlappingParts ==
    /\ pc = "ready"
    /\ call.op = "remove_overlapping_parts"
    /\ Finish(remove_overlapping_parts(call.input_data[1], call.input_data[2],
                                       call.output_path, heap))


\* the island filter alone
NextIslands == RemoveIslandsThr

SpecIslands == InitIslands /\ [][NextIslands]_vars

\* the two set operations alone
InitAlgebra == InitCombine \/ InitOverlap

NextAlgebra == CombineBinaryMasks \/ RemoveOverlappingParts

SpecAlgebra == InitAlgebra /\ [][NextAlgebra]_vars

(***************************************************************************)
(* RTSTRUCT dataset (what pydicom.dcmread hands to RTStruct)               *)
(***************************************************************************)
\* most ROIs of a structure set
MaxRois == 2

\* the names ROIs bear; a structure set is read with its ROIs named in this order
NameList == <<"GTV", "CTV", "PTV">>

RoiNames == { NameList[i] : i \in 1 .. Len(NameList) }

\* item of StructureSetROISequence
Roi(name, number) == [ROIName |-> name, ROINumber |-> number]

\* item of a ContourSequence; ContourData is the flat list x1, y1, z1, x2, ...
\* (<<>> also stands for an item without ContourData), ContourStatus is ""
\* when the item has no such attribute
Contour(data, status, type) ==
    [ContourData |-> data, ContourStatus |-> status, ContourGeometricType |-> type]

\* item of ROIContourSequence, with or without a ContourSequence
RoiContour(number, has, contours) ==
    [ReferencedROINumber |-> number, hasContourSequence |-> has, ContourSequence |-> contours]

\* item of RTROIObservationsSequence
Observation(number) == [ReferencedROINumber |-> number]

\* the dataset; a sequence attribute may be absent (has... = FALSE)
Dataset(hasRois, rois, hasContours, contours, hasObservations, observations) ==
    [hasStructureSetROISequence |-> hasRois, StructureSetROISequence |-> rois,
     hasROIContourSequence |-> hasContours, ROIContourSequence |-> contours,
     hasRTROIObservationsSequence |-> hasObservations,
     RTROIObservationsSequence |-> observations]

\* self.rtstruct.get("StructureSetROISequence", [])
GetStructureSetROISequence(ds) ==
    IF ds.hasStructureSetROISequence THEN ds.StructureSetROISequence ELSE <<>>

\* self.rtstruct.get("ROIContourSequence", [])
GetROIContourSequence(ds) ==
    IF ds.hasROIContourSequence THEN ds.ROIContourSequence ELSE <<>>

\* {roi.get("ROIName"): (indx, roi.get("ROINumber")) for indx, roi in
\* enumerate(...)}: indx counts from 0, a later item of the same name wins
RoiDict(ds) ==
    LET seq == GetStructureSetROISequence(ds)
        names == { seq[i].ROIName : i \in 1 .. Len(seq) }
    IN  [n \in names |->
            LET i == MaxOf({ j \in 1 .. Len(seq) : seq[j].ROIName = n })
            IN  <<i - 1, seq[i].ROINumber>>]

\* RTStruct.__init__ on a readable RTSTRUCT file, with or without a
\* referenced image
RTStruct(ds, referenced_image) ==
    [rtstruct |-> ds, roi_dict |-> RoiDict(ds), referenced_image |-> referenced_image,
     metadata |-> NoGeometry]

\* what a method call leaves behind: the object, how the call ended, what it
\* logged as warning or error, the image it wrote
Result(s, o, w, f) == [self |-> s, outcome |-> o, warnings |-> w, written |-> f]

\* self.logger.warning(...) / self.logger.error(...)
Log(level, message) == <<level, message>>

(***************************************************************************)
(* RTStruct.prune_rtstruct_rois                                            *)
(***************************************************************************)
\* a filter that lets every item through
KeepsNumberAlways(item, roi_numbers_to_keep) == TRUE

\* item.ReferencedROINumber in roi_numbers_to_keep
KeepsNumber(item, roi_numbers_to_keep) == item.ReferencedROINumber \in roi_numbers_to_keep

prune_rtstruct_rois(s, rois_to_keep) ==
    LET ds == s.rtstruct IN
    IF ~ds.hasStructureSetROISequence
    THEN Result(s, Raise("AttributeError"), << Log("error", "pruning") >>, NoneImage)
    ELSE
    LET structure_set_roi_sequences_to_keep ==
            SelectSeq(ds.StructureSetROISequence, LAMBDA roi_seq : roi_seq.ROIName \in rois_to_keep)
        roi_numbers_to_keep ==
            { structure_set_roi_sequences_to_keep[i].ROINumber :
                i \in 1 .. Len(structure_set_roi_sequences_to_keep) }
        roi_contour_sequences_to_keep ==
            SelectSeq(GetROIContourSequence(ds),
                      LAMBDA roi_contour_seq : KeepsNumber(roi_contour_seq, roi_numbers_to_keep))
        filtered_rt_observations ==
            IF ds.hasRTROIObservationsSequence
            THEN SelectSeq(ds.RTROIObservationsSequence,
                           LAMBDA obs : KeepsNumber(obs, roi_numbers_to_keep))
            ELSE <<>>
        pruned == Dataset(TRUE, structure_set_roi_sequences_to_keep,
                          roi_contour_sequences_to_keep # <<>>, roi_contour_sequences_to_keep,
                          ds.hasRTROIObservationsSequence, filtered_rt_observations)
    IN  Result([s EXCEPT !.rtstruct = pruned, !.roi_dict = RoiDict(pruned)],
               Return(NoneImage), <<>>, NoneImage)

(***************************************************************************)
(* RTStruct.rename_rois                                                    *)
(***************************************************************************)
\* a renaming that follows the map a second time
RenamedNameChained(name, rename_map) ==
    IF name \in DOMAIN rename_map
    THEN IF rename_map[name] \in DOMAIN rename_map
         THEN rename_map[rename_map[name]]
         ELSE rename_map[name]
    ELSE name

\* if roi.ROIName in rename_map: roi.ROIName = rename_map[old_name]
RenamedName(name, rename_map) ==
    IF name \in DOMAIN rename_map THEN rename_map[name] ELSE name

\* the registry self.roi_dict is not rebuilt
rename_rois(s, rename_map) ==
    LET ds == s.rtstruct
        renamed == [i \in 1 .. Len(GetStructureSetROISequence(ds)) |->
                       [ds.StructureSetROISequence[i] EXCEPT
                           !.ROIName = RenamedName(@, rename_map)]]
    IN  Result([s EXCEPT !.rtstruct.StructureSetROISequence = renamed],
               Return(NoneImage), <<>>, NoneImage)

(***************************************************************************)
(* RTStruct.validate_roi                                                   *)
(***************************************************************************)
\* a lookup failure raised as KeyError
NotFoundAsKeyError == "KeyError"

\* the exception raised for a name that is not in self.roi_dict
NotFound == "ValueError"

\* roi_name in self.roi_dict
InRegistry(roi_name, roi_dict) == roi_name \in DOMAIN roi_dict

RECURSIVE Sorted(_)
\* sorted(z_values)
Sorted(values) ==
    IF values = <<>> THEN <<>>
    ELSE LET i == CHOOSE j \in 1 .. Len(values) :
                      \A k \in 1 .. Len(values) : values[j] <= values[k]
         IN  <<values[i]>> \o Sorted(SubSeq(values, 1, i - 1) \o SubSeq(values, i + 1, Len(values)))

validate_roi(s, roi_name) ==
    IF ~InRegistry(roi_name, s.roi_dict) THEN Result(s, Raise(NotFound), <<>>, NoneImage)
    ELSE
    LET roi_index == s.roi_dict[roi_name][1]
        roi_contours == GetROIContourSequence(s.rtstruct)
    IN
    IF roi_index + 1 > Len(roi_contours) THEN Result(s, Raise("IndexError"), <<>>, NoneImage)
    ELSE
    LET item == roi_contours[roi_index + 1]
        contour_sequence == IF item.hasContourSequence THEN item.ContourSequence ELSE <<>>
        with_data == SelectSeq(contour_sequence, LAMBDA contour : contour.ContourData # <<>>)
    IN
    IF contour_sequence = <<>> THEN Result(s, Raise("ValueError"), <<>>, NoneImage)
    ELSE IF \E i \in 1 .. Len(with_data) : Len(with_data[i].ContourData) < 3
    THEN Result(s, Raise("IndexError"), <<>>, NoneImage)
    ELSE
    LET z_values == [i \in 1 .. Len(with_data) |-> with_data[i].ContourData[3]]
        z_values_sorted == Sorted(z_values)
        spacing_set == { z_values_sorted[i + 1] - z_values_sorted[i] :
                           i \in 1 .. Len(z_values_sorted) - 1 }
    IN  IF Len(z_values) < 2 THEN Result(s, Return(PyTrue), <<>>, NoneImage)
        ELSE Result(s, Return(IF Cardinality(spacing_set) = 1 THEN PyTrue ELSE PyFalse),
                    <<>>, NoneImage)

(***************************************************************************)
(* Rasterizing a contour (skimage.draw.polygon, scipy binary_fill_holes)   *)
(***************************************************************************)
\* int(n / d) rounded down instead
RoundDown(n, d) == n \div d

\* int(round(n / d)), d > 0: Python rounds a half to the even neighbour
RoundHalfEven(n, d) ==
    LET q == n \div d
        r == n % d
    IN  IF 2 * r < d THEN q
        ELSE IF 2 * r > d THEN q + 1
        ELSE IF q % 2 = 0 THEN q ELSE q + 1

Sgn(n) == IF n > 0 THEN 1 ELSE IF n < 0 THEN -1 ELSE 0

\* np.array(contour.ContourData).reshape(-1, 3): the points of a contour
Reshape(contour_data) ==
    [i \in 1 .. Len(contour_data) \div 3 |->
        <<contour_data[3 * i - 2], contour_data[3 * i - 1], contour_data[3 * i]>>]

\* the crossing-number test that counts an edge from its lower end up to, but
\* not with, its upper end: pixels on the upper and the right boundary are outside
PointInPolygonHalfOpen(xs, ys, sx, sy, c, r) ==
    LET n == Len(xs)
        X(i) == xs[i] - c * sx
        Y(i) == ys[i] - r * sy
        Prev(i) == IF i = 1 THEN n ELSE i - 1
        crossings == { i \in 1 .. n :
                         /\ \/ Y(i) <= 0 /\ 0 < Y(Prev(i))
                            \/ Y(Prev(i)) <= 0 /\ 0 < Y(i)
                         /\ Sgn(X(i) * Y(Prev(i)) - X(Prev(i)) * Y(i))
                                * Sgn(Y(Prev(i)) - Y(i)) > 0 }
    IN  Cardinality(crossings) % 2 = 1

\* skimage's point_in_polygon for the pixel centre (column c, row r) and the
\* polygon whose i-th vertex is (xs[i] / sx, ys[i] / sy): non-zero, that is
\* inside, on an edge or on a vertex.  Coordinates are kept as numerators
\* over the spacings sx, sy > 0, which leaves every sign unchanged.
PointInPolygon(xs, ys, sx, sy, c, r) ==
    LET n == Len(xs)
        X(i) == xs[i] - c * sx
        Y(i) == ys[i] - r * sy
        Prev(i) == IF i = 1 THEN n ELSE i - 1
        \* sign of (x0 * y1 - x1 * y0) / (y1 - y0) for the edge (i-1, i)
        Side(i) == Sgn(X(i) * Y(Prev(i)) - X(Prev(i)) * Y(i)) * Sgn(Y(Prev(i)) - Y(i))
        r_cross == Cardinality({ i \in 1 .. n :
                       /\ (Y(i) > 0) # (Y(Prev(i)) > 0)
                       /\ Side(i) > 0 })
        l_cross == Cardinality({ i \in 1 .. n :
                       /\ (Y(i) < 0) # (Y(Prev(i)) < 0)
                       /\ Side(i) < 0 })
    IN  \/ \E i \in 1 .. n : X(i) = 0 /\ Y(i) = 0
        \/ r_cross % 2 # l_cross % 2
        \/ r_cross % 2 = 1

\* rr, cc = polygon(y_coords, x_coords, shape): the pixels <<row, column>>
\* inside the shape that the polygon covers
Polygon(xs, ys, sx, sy, shape) ==
    { p \in (0 .. shape[1] - 1) \X (0 .. shape[2] - 1) :
        PointInPolygon(xs, ys, sx, sy, p[2], p[1]) }

\* pixels that share an edge (the default structuring element of scipy)
EdgeAdjacent(p, q) == Abs(p[1] - q[1]) + Abs(p[2] - q[2]) = 1

RECURSIVE Invade(_, _)
Invade(seen, background) ==
    LET grown == seen \cup { q \in background : \E p \in seen : EdgeAdjacent(p, q) }
    IN  IF grown = seen THEN seen ELSE Invade(grown, background)

\* holes left as they are
BinaryFillHolesNever(slice_mask, shape) == slice_mask

\* binary_fill_holes(slice_mask): the background that cannot be reached from
\* the border of the array is set
BinaryFillHoles(slice_mask, shape) ==
    LET pixels == (0 .. shape[1] - 1) \X (0 .. shape[2] - 1)
        background == pixels \ slice_mask
        border == { p \in background :
                      \/ p[1] \in {0, shape[1] - 1}
                      \/ p[2] \in {0, shape[2] - 1} }
    IN  pixels \ Invade(border, background)

(***************************************************************************)
(* RTStruct._load_metadata, set_reference_image                            *)
(***************************************************************************)
\* spacing, origin, direction and image_size are read off the referenced
\* image; without one, None has no GetSpacing
_load_metadata(s) ==
    IF IsNone(s.referenced_image)
    THEN Result(s, Raise("AttributeError"), <<>>, NoneImage)
    ELSE Result([s EXCEPT !.metadata = s.referenced_image.geom], Return(NoneImage), <<>>, NoneImage)

\* sitk.ReadImage of the path (or the series reader): the failure is logged
\* and raised again
set_reference_image(s, item) ==
    IF item.kind = "file"
    THEN Result([s EXCEPT !.referenced_image = Fresh(item.img)], Return(NoneImage), <<>>, NoneImage)
    ELSE Result(s, Raise("RuntimeError"), << Log("error", "set_reference_image") >>, NoneImage)

(***************************************************************************)
(* RTStruct._make_binary_mask, _empty_mask                                 *)
(***************************************************************************)
\* sitk.GetImageFromArray(mask_array): the array [z][y][x] as an image of
\* size (nx, ny, nz) with default spacing, origin and direction
GetImageFromArray(vox, image_size) ==
    Image(Geometry(image_size, UnitSpacing, ZeroOrigin, IdentityDirection), vox, 0)

\* mask.CopyInformation(self.referenced_image) and return; the two images
\* must have one size
ReturnWithInformation(s, w, mask) ==
    IF mask.geom.size # s.referenced_image.geom.size
    THEN Result(s, Raise("RuntimeError"), w, NoneImage)
    ELSE Result(s, Return(CopyInformation(mask, s.referenced_image)), w, NoneImage)

_empty_mask(s, w) == ReturnWithInformation(s, w, GetImageFromArray({}, s.metadata.size))

\* len(contour.ContourData) < 6 (or no ContourData) is skipped
HasContourData(contour) == Len(contour.ContourData) >= 6

\* int(round((z_position - self.origin[2]) / self.spacing[2])), z_position
\* being the z of the first point
SliceIndex(contour, geom) ==
    RoundHalfEven(contour.ContourData[3] - geom.origin[3], geom.spacing[3])

\* not (slice_idx < 0 or slice_idx >= self.image_size[2])
SliceInRange(slice_idx, image_size) == slice_idx >= 0 /\ slice_idx < image_size[3]

\* the entry appended to slice_contours[slice_idx]
ContourInfo(contour) ==
    [data |-> Reshape(contour.ContourData),
     is_sub |-> contour.ContourStatus = "SUB",
     type |-> contour.ContourGeometricType]

\* the test of is_sub left out
PaintedAlwaysSet(slice_mask, covered, is_sub) == slice_mask \cup covered

\* slice_mask[rr, cc] = 0 if is_sub, else slice_mask[rr, cc] = 1
Painted(slice_mask, covered, is_sub) ==
    IF is_sub THEN slice_mask \ covered ELSE slice_mask \cup covered

RECURSIVE PaintContours(_, _, _, _)
\* for contour_info in contours: rasterize, then clear (SUB) or set; the
\* slice mask is the set of its pixels <<row, column>> that are 1
PaintContours(slice_mask, contours, geom, shape) ==
    IF contours = <<>> THEN slice_mask
    ELSE
    LET contour_data == Head(contours).data
        closed == IF /\ Head(contours).type = "CLOSED_PLANAR"
                     /\ contour_data[1] # contour_data[Len(contour_data)]
                  THEN Append(contour_data, contour_data[1])
                  ELSE contour_data
        xs == [i \in 1 .. Len(closed) |-> closed[i][1] - geom.origin[1]]
        ys == [i \in 1 .. Len(closed) |-> closed[i][2] - geom.origin[2]]
        covered == Polygon(xs, ys, geom.spacing[1], geom.spacing[2], shape)
        painted == IF Len(contour_data) < 3 THEN slice_mask
                   ELSE Painted(slice_mask, covered, Head(contours).is_sub)
    IN  PaintContours(painted, Tail(contours), geom, shape)

\* the slice mask of one slice: np.zeros(self.image_size[:2]), the contours
\* painted in order, holes filled if asked and the mask is not all zero
SliceMask(contours, geom, fill_holes) ==
    LET shape == <<geom.size[1], geom.size[2]>>
        slice_mask == PaintContours({}, contours, geom, shape)
    IN  IF slice_mask # {} /\ fill_holes THEN BinaryFillHoles(slice_mask, shape) ELSE slice_mask

\* numpy can assign an array of shape src to a slot of shape dst
Broadcasts(src, dst) == \A i \in 1 .. 2 : src[i] = dst[i] \/ src[i] = 1

_make_binary_mask(s, roi_name, fill_holes) ==
    \* self.image_size exists only once _load_metadata has run
    IF s.metadata = NoGeometry THEN Result(s, Raise("AttributeError"), <<>>, NoneImage)
    ELSE IF ~InRegistry(roi_name, s.roi_dict) THEN Result(s, Raise(NotFound), <<>>, NoneImage)
    ELSE
    LET geom == s.metadata
        roi_idx == s.roi_dict[roi_name][1]
        roi_contours == GetROIContourSequence(s.rtstruct)
    IN
    IF roi_idx + 1 > Len(roi_contours)
    THEN _empty_mask(s, << Log("warning", "no_contour_sequence_for_roi") >>)
    ELSE IF ~roi_contours[roi_idx + 1].hasContourSequence
    THEN _empty_mask(s, << Log("warning", "roi_has_no_contour_sequence") >>)
    ELSE
    LET with_data == SelectSeq(roi_contours[roi_idx + 1].ContourSequence, HasContourData)
        \* the contours the first loop reaches before a reshape fails
        placed == SelectSeq(with_data,
                      LAMBDA contour : SliceInRange(SliceIndex(contour, geom), geom.size))
        slices == { SliceIndex(placed[i], geom) : i \in 1 .. Len(placed) }
        slice_contours ==
            [slice_idx \in slices |->
                LET here == SelectSeq(placed,
                                LAMBDA contour : SliceIndex(contour, geom) = slice_idx)
                IN  [i \in 1 .. Len(here) |-> ContourInfo(here[i])]]
    IN
    \* reshape(-1, 3) of a list whose length is no multiple of 3
    IF \E i \in 1 .. Len(with_data) : Len(with_data[i].ContourData) % 3 # 0
    THEN Result(s, Raise("ValueError"), <<>>, NoneImage)
    \* mask_array[slice_idx] has shape (ny, nx), slice_mask has shape (nx, ny)
    ELSE IF slices # {} /\ ~Broadcasts(<<geom.size[1], geom.size[2]>>,
                                      <<geom.size[2], geom.size[1]>>)
    THEN Result(s, Raise("ValueError"), <<>>, NoneImage)
    ELSE
    LET mask_array ==
            UNION { { <<p[2], p[1], slice_idx>> :
                        p \in SliceMask(slice_contours[slice_idx], geom, fill_holes) } :
                    slice_idx \in slices }
    IN  ReturnWithInformation(s, <<>>, GetImageFromArray(mask_array, geom.size))

(***************************************************************************)
(* RTStruct.get_binary_mask, get_save_binary_mask                          *)
(***************************************************************************)
\* def get_binary_mask(self, roi_name, *, fill_holes=False) and
\* def _make_binary_mask(self, roi_name, *, fill_holes=False): the parameters
\* that take an argument passed by position
PositionalParameters == <<"roi_name">>

\* self._make_binary_mask(roi_name, fill_holes) and
\* self.get_binary_mask(roi_name, fill_holes): the arguments passed by position
PositionalArguments == <<"roi_name", "fill_holes">>

\* Python binds the call, or raises TypeError
CallBinds == Len(PositionalArguments) <= Len(PositionalParameters)

get_binary_mask(s, roi_name, fill_holes) ==
    IF ~IsNone(s.referenced_image) /\ Truthy(s.referenced_image) THEN
        LET loaded == _load_metadata(s).self IN
        IF ~CallBinds THEN Result(loaded, Raise("TypeError"), <<>>, NoneImage)
        ELSE _make_binary_mask(loaded, roi_name, fill_holes)
    ELSE Result(s, Return(PyFalse), << Log("warning", "referenced_image_not_set") >>, NoneImage)

get_save_binary_mask(s, roi_name, output_filepath, fill_holes, prune_empty) ==
    LET failed(s1, w) ==
            Result(s1, Return(PyFalse), Append(w, Log("error", "error_saving_binary_mask")),
                   NoneImage)
    IN
    IF ~CallBinds THEN failed(s, <<>>)
    ELSE
    LET got == get_binary_mask(s, roi_name, fill_holes)
        mask == got.outcome.value
    IN
    IF got.outcome.kind = "raise" THEN failed(got.self, got.warnings)
    ELSE IF IsImage(mask) THEN
        IF mask.vox = {} /\ prune_empty THEN failed(got.self, got.warnings)
        ELSE
        LET w == IF mask.vox = {}
                 THEN Append(got.warnings, Log("warning", "mask_is_empty_saved_anyway"))
                 ELSE got.warnings
        IN  IF output_filepath = "bad" THEN failed(got.self, w)
            ELSE Result(got.self, Return(PyTrue), w, Fresh(mask))
    ELSE Result(got.self, Return(PyFalse),
                Append(got.warnings, Log("error", "failed_to_generate_binary_mask")), NoneImage)

(***************************************************************************)
(* The structure sets and referenced images an RTStruct is built from      *)
(***************************************************************************)
\* in-plane extent of the referenced images: GridN x GridN and one column more
GridN == 4
\* longest ContourSequence of the ROI that is rasterized
MaxContours == 2

ReferenceSpacing == <<2, 1, 2>>
ReferenceOrigin == <<-1, 2, 1>>

ReferenceGeometry(size) == Geometry(size, ReferenceSpacing, ReferenceOrigin, IdentityDirection)

\* a square grid and a grid that is wider than high, two slices each
SquareSize == <<GridN, GridN, 2>>
WideSize == <<GridN + 1, GridN, 2>>

ReferenceImages ==
    { Image(ReferenceGeometry(SquareSize), {}, 0), Image(ReferenceGeometry(WideSize), {}, 0) }

\* the physical position of the centre of voxel (x, y, z) of a referenced image
Physical(x, y, z) ==
    <<ReferenceOrigin[1] + x * ReferenceSpacing[1],
      ReferenceOrigin[2] + y * ReferenceSpacing[2],
      ReferenceOrigin[3] + z * ReferenceSpacing[3]>>

\* ContourData of the rectangle with voxel corners (x0, y0) and (x1, y1) on slice z
Rectangle(x0, x1, y0, y1, z) ==
    Physical(x0, y0, z) \o Physical(x1, y0, z) \o Physical(x1, y1, z) \o Physical(x0, y1, z)

\* the contours a ROI is made of: a square over the whole slice 0, a hole
\* inside it, a rectangle on slice 1 that is wider than high, and the same
\* rectangle above the last slice
ContourCatalogue ==
    { Contour(Rectangle(0, GridN - 1, 0, GridN - 1, 0), "", "CLOSED_PLANAR"),
      Contour(Rectangle(1, GridN - 2, 1, GridN - 2, 0), "SUB", "CLOSED_PLANAR"),
      Contour(Rectangle(1, GridN - 1, 0, 1, 1), "", "CLOSED_PLANAR"),
      Contour(Rectangle(1, GridN - 1, 0, 1, 2), "", "CLOSED_PLANAR") }

RECURSIVE SeqsUpTo(_, _)
\* the sequences over S of length at most n
SeqsUpTo(S, n) ==
    IF n = 0 THEN { <<>> }
    ELSE LET shorter == SeqsUpTo(S, n - 1)
         IN  shorter \cup { Append(q, x) : q \in { r \in shorter : Len(r) = n - 1 }, x \in S }

\* the contour every further ROI is made of: a rectangle on the slice of its number
ContourOfNumber(number) ==
    Contour(Rectangle(0, 1, 0, number, number % 2), "", "CLOSED_PLANAR")

\* the first k names as ROIs numbered 1 .. k
RoisNumbered(k) == [i \in 1 .. k |-> Roi(NameList[i], i)]

\* one ROIContourSequence item per number of the list, in the order of the list
RoiContoursOf(numbers) ==
    [i \in 1 .. Len(numbers) |->
        RoiContour(numbers[i], TRUE, << ContourOfNumber(numbers[i]) >>)]

ObservationsOf(numbers) == [i \in 1 .. Len(numbers) |-> Observation(numbers[i])]

Reversed(q) == [i \in 1 .. Len(q) |-> q[Len(q) + 1 - i]]

\* structure sets for the registry, none with a reference to a ROI that
\* does not exist: k ROIs with their contour items in order or reversed and
\* an observation each, or with neither contours nor observation for the first,
\* or without the two dependent sequences; and a dataset without any sequence
RegistryDatasets(k) ==
    LET all == [i \in 1 .. k |-> i]
        rest == IF k > 0 THEN Tail(all) ELSE all
    IN  { Dataset(TRUE, RoisNumbered(k), TRUE, RoiContoursOf(c), TRUE, ObservationsOf(all)) :
            c \in { all, Reversed(all) } }
        \cup { Dataset(TRUE, RoisNumbered(k), TRUE, RoiContoursOf(rest), TRUE, ObservationsOf(rest)),
               Dataset(TRUE, RoisNumbered(k), FALSE, <<>>, FALSE, <<>>),
               Dataset(FALSE, <<>>, FALSE, <<>>, FALSE, <<>>) }

\* structure sets for the rasterizer: the ROIs GTV (number 1) and CTV (number
\* 2); GTV has the contours given, or an item without ContourSequence, or the
\* structure set has no ROIContourSequence at all
ContourDatasets(contours) ==
    { Dataset(TRUE, RoisNumbered(2), TRUE,
              << RoiContour(1, TRUE, contours), RoiContour(2, TRUE, << ContourOfNumber(2) >>) >>,
              TRUE, ObservationsOf(<<1, 2>>)),
      Dataset(TRUE, RoisNumbered(2), TRUE,
              << RoiContour(1, FALSE, <<>>), RoiContour(2, TRUE, << ContourOfNumber(2) >>) >>,
              TRUE, ObservationsOf(<<1, 2>>)),
      Dataset(TRUE, RoisNumbered(2), FALSE, <<>>, TRUE, ObservationsOf(<<1, 2>>)) }

\* the names a caller asks for: BODY is the name of no ROI
AskedNames == RoiNames \cup {"BODY"}

\* the names asked of a structure set that holds GTV and CTV
AskedOfTwo == {"GTV", "CTV", "PTV"}

\* rename maps with at most two entries
RenameMaps ==
    { <<>> }
    \cup { [n \in {a} |-> b] : a \in RoiNames, b \in RoiNames }
    \cup UNION { { [n \in {a1, a2} |-> IF n = a1 THEN b1 ELSE b2] :
                     b1 \in RoiNames, b2 \in RoiNames } :
                 a1 \in RoiNames, a2 \in RoiNames }

(***************************************************************************)
(* State machine of an RTStruct object                                     *)
(***************************************************************************)
MethodCall(op, args, output_path) ==
    [op |-> op, input_data |-> <<>>, output_path |-> output_path, thr |-> 0, args |-> args]

\* the state after RTStruct(rtstruct_path, referenced_image_path) has returned
Construct(ds, referenced_image) ==
    /\ pc = "object"
    /\ call = MethodCall("__init__", <<>>, "none")
    /\ heap = <<>>
    /\ outcome = Return(NoneImage)
    /\ warnings = <<>>
    /\ trace = <<>>
    /\ written = NoneImage
    /\ self = RTStruct(ds, referenced_image)

InitRegistry ==
    \E k \in 0 .. MaxRois : \E ds \in RegistryDatasets(k) : Construct(ds, NoneImage)

InitContours ==
    \E contours \in SeqsUpTo(ContourCatalogue, MaxContours) :
        \E ds \in ContourDatasets(contours) :
            \E referenced_image \in ReferenceImages \cup {NoneImage} :
                Construct(ds, referenced_image)

Invoke(c, r) ==
    /\ pc = "object"
    /\ pc' = pc
    /\ call' = c
    /\ self' = r.self
    /\ outcome' = r.outcome
    /\ warnings' = r.warnings
    /\ written' = r.written
    /\ UNCHANGED <<heap, trace>>

PruneRtstructRois ==
    \E rois_to_keep \in SUBSET RoiNames :
        Invoke(MethodCall("prune_rtstruct_rois", [rois_to_keep |-> rois_to_keep], "none"),
               prune_rtstruct_rois(self, rois_to_keep))

RenameRois ==
    \E rename_map \in RenameMaps :
        Invoke(MethodCall("rename_rois", [rename_map |-> rename_map], "none"),
               rename_rois(self, rename_map))

ValidateRoi ==
    \E roi_name \in AskedNames :
        Invoke(MethodCall("validate_roi", [roi_name |-> roi_name], "none"),
               validate_roi(self, roi_name))

LoadMetadata ==
    Invoke(MethodCall("_load_metadata", <<>>, "none"), _load_metadata(self))

SetReferenceImage ==
    \E item \in { Item("file", m) : m \in ReferenceImages } \cup { Item("corrupt", NoneImage) } :
        Invoke(MethodCall("set_reference_image", [referenced_image_path |-> item], "none"),
               set_reference_image(self, item))

MakeBinaryMask ==
    \E roi_name \in AskedOfTwo, fill_holes \in BOOLEAN :
        Invoke(MethodCall("_make_binary_mask",
                          [roi_name |-> roi_name, fill_holes |-> fill_holes], "none"),
               _make_binary_mask(self, roi_name, fill_holes))

GetBinaryMask ==
    \E roi_name \in AskedOfTwo, fill_holes \in BOOLEAN :
        Invoke(MethodCall("get_binary_mask",
                          [roi_name |-> roi_name, fill_holes |-> fill_holes], "none"),
               get_binary_mask(self, roi_name, fill_holes))

GetSaveBinaryMask ==
    \E roi_name \in AskedOfTwo, output_filepath \in {"ok", "bad"},
       fill_holes \in BOOLEAN, prune_empty \in BOOLEAN :
        Invoke(MethodCall("get_save_binary_mask",
                          [roi_name |-> roi_name, fill_holes |-> fill_holes,
                           prune_empty |-> prune_empty], output_filepath),
               get_save_binary_mask(self, roi_name, output_filepath, fill_holes, prune_empty))

\* an object built from a structure set of MaxRois ROIs with a contour item
\* and an observation each, with or without a referenced image
InitObject ==
    \E referenced_image \in ReferenceImages \cup {NoneImage} :
        Construct(Dataset(TRUE, RoisNumbered(MaxRois),
                          TRUE, RoiContoursOf([i \in 1 .. MaxRois |-> i]),
                          TRUE, ObservationsOf([i \in 1 .. MaxRois |-> i])),
                  referenced_image)

\* the three mask operations on their arguments, and every method of an
\* RTStruct object
Init == InitIslands \/ InitCombine \/ InitOverlap \/ InitObject

Next ==
    \/ RemoveIslandsThr
    \/ CombineBinaryMasks
    \/ RemoveOverlappingParts
    \/ PruneRtstructRois
    \/ RenameRois
    \/ ValidateRoi
    \/ LoadMetadata
    \/ SetReferenceImage
    \/ MakeBinaryMask
    \/ GetBinaryMask
    \/ GetSaveBinaryMask

Spec == Init /\ [][Next]_vars

\* the ROI registry: prune, rename, validate
NextRegistry == PruneRtstructRois \/ RenameRois \/ ValidateRoi

SpecRegistry == InitRegistry /\ [][NextRegistry]_vars

\* the rasterizer, called as the class calls it (fill_holes by keyword)
NextContours == LoadMetadata \/ SetReferenceImage \/ MakeBinaryMask \/ ValidateRoi

SpecContours == InitContours /\ [][NextContours]_vars

\* the two public ways to a mask
NextGetMask == LoadMetadata \/ SetReferenceImage \/ GetBinaryMask \/ GetSaveBinaryMask

SpecGetMask == InitContours /\ [][NextGetMask]_vars

(***************************************************************************)
(* A caller that assembles the volume of a ROI, combines it with a second  *)
(* volume and subtracts the second volume back                             *)
(***************************************************************************)
\* rectangles <<x0, x1, y0, y1>> without a common pixel: the two left columns
\* and the lower and the upper half of the columns right of them
DisjointRectangles ==
    { <<0, 1, 0, GridN - 1>>, <<2, GridN - 1, 0, 1>>, <<2, GridN - 1, 2, GridN - 1>> }

\* two coplanar contours that do not overlap
CoplanarPairs ==
    { << Contour(Rectangle(ab[1][1], ab[1][2], ab[1][3], ab[1][4], z), "", "CLOSED_PLANAR"),
         Contour(Rectangle(ab[2][1], ab[2][2], ab[2][3], ab[2][4], z), "", "CLOSED_PLANAR") >> :
        ab \in { q \in DisjointRectangles \X DisjointRectangles : q[1] # q[2] },
        z \in 0 .. 1 }

\* the structure set whose ROI GTV is made of the contours given
DatasetOfContours(contours) ==
    Dataset(TRUE, RoisNumbered(2), TRUE,
            << RoiContour(1, TRUE, contours), RoiContour(2, TRUE, << ContourOfNumber(2) >>) >>,
            TRUE, ObservationsOf(<<1, 2>>))

InitRoundTrip ==
    \E contours \in CoplanarPairs :
        Construct(DatasetOfContours(contours), Image(ReferenceGeometry(SquareSize), {}, 0))

\* the second volumes on the grid of V: a voxel-identical copy, the all-false
\* volume and the first column of V
SecondVolumes(V) ==
    { Image(V.geom, vox, 0) : vox \in { V.vox, {}, { v \in V.vox : v[1] = 0 } } }

\* the caller's step from one mask call to the next
Hand(p, c, r) ==
    /\ pc' = p
    /\ call' = c
    /\ heap' = r.heap
    /\ outcome' = r.outcome
    /\ warnings' = r.warnings
    /\ trace' = r.trace
    /\ written' = r.written
    /\ UNCHANGED self

\* combine_binary_masks([V, V2]) on the volume _make_binary_mask returned
CombineWithSecond ==
    /\ pc = "object"
    /\ call.op = "_make_binary_mask"
    /\ outcome.kind = "return"
    /\ IsImage(outcome.value)
    /\ \E V2 \in SecondVolumes(outcome.value), kind \in {"mem", "file"} :
          LET V == outcome.value
              input_data == << Item(kind, V), Item(kind, V2) >>
          IN  Hand("combined",
                   [MethodCall("combine_binary_masks", [assembled |-> V], "none")
                        EXCEPT !.input_data = input_data],
                   combine_binary_masks(input_data, "none", HeapOf(input_data)))

\* remove_overlapping_parts(combined, V2) on the volume combine_binary_masks
\* returned
SubtractBack ==
    /\ pc = "combined"
    /\ outcome.kind = "return"
    /\ IsImage(outcome.value)
    /\ LET input_data == << Item("mem", outcome.value), call.input_data[2] >>
       IN  Hand("subtracted",
                [call EXCEPT !.op = "remove_overlapping_parts", !.input_data = input_data],
                remove_overlapping_parts(input_data[1], input_data[2], "none",
                                         HeapOf(input_data)))

NextRoundTrip == LoadMetadata \/ MakeBinaryMask \/ CombineWithSecond \/ SubtractBack

SpecRoundTrip == InitRoundTrip /\ [][NextRoundTrip]_vars

(***************************************************************************)
(* Structure sets with contours that are too short or off the grid         *)
(***************************************************************************)
\* a rectangle on slice 0 cut down to its first n coordinate values
Truncated(n) ==
    Contour(SubSeq(Rectangle(0, GridN - 1, 0, GridN - 1, 0), 1, n), "", "CLOSED_PLANAR")

\* contours of no, one and two points, contours whose length is no multiple
\* of 3, and rectangles below the first and above the last slice
MalformedContours ==
    { Truncated(n) : n \in {0, 3, 6, 7, 8} }
        \cup { Contour(Rectangle(1, GridN - 1, 0, 1, z), "", "CLOSED_PLANAR") : z \in {-1, 2} }

\* the well-formed contours they are mixed with
WellFormedContours ==
    { Contour(Rectangle(0, GridN - 1, 0, GridN - 1, 0), "", "CLOSED_PLANAR"),
      Contour(Rectangle(1, GridN - 1, 0, 1, 1), "", "CLOSED_PLANAR") }

InitMalformed ==
    \E contours \in SeqsUpTo(MalformedContours \cup WellFormedContours, MaxContours) :
        Construct(DatasetOfContours(contours), Image(ReferenceGeometry(SquareSize), {}, 0))

NextMalformed == LoadMetadata \/ MakeBinaryMask

SpecMalformed == InitMalformed /\ [][NextMalformed]_vars

(***************************************************************************)
(* Structure sets with contours that overlap on a slice                    *)
(***************************************************************************)
\* on slice 0 the square over the whole slice, the hole inside it, a positive
\* rectangle in a corner, a hole that overlaps it in part and a positive
\* rectangle that overlaps that hole
OverlappingContours ==
    { Contour(Rectangle(0, GridN - 1, 0, GridN - 1, 0), "", "CLOSED_PLANAR"),
      Contour(Rectangle(1, GridN - 2, 1, GridN - 2, 0), "SUB", "CLOSED_PLANAR"),
      Contour(Rectangle(0, 2, 0, 2, 0), "", "CLOSED_PLANAR"),
      Contour(Rectangle(1, GridN - 1, 1, GridN - 1, 0), "SUB", "CLOSED_PLANAR"),
      Contour(Rectangle(2, GridN - 1, 0, 1, 0), "", "CLOSED_PLANAR") }

InitCompose ==
    \E contours \in SeqsUpTo(OverlappingContours, MaxContours) :
        Construct(DatasetOfContours(contours), Image(ReferenceGeometry(SquareSize), {}, 0))

NextCompose == LoadMetadata \/ MakeBinaryMask

SpecCompose == InitCompose /\ [][NextCompose]_vars

(***************************************************************************)
(* Structure sets with one contour at a physical Z position                *)
(***************************************************************************)
\* Z positions are counted in quarters of a millimetre here: the grid has 50
\* slices 2.5 mm apart, the first at -100 mm
SliceGeometry ==
    Geometry(<<GridN, GridN, 50>>,
             <<ReferenceSpacing[1], ReferenceSpacing[2], 10>>,
             <<ReferenceOrigin[1], ReferenceOrigin[2], -400>>, IdentityDirection)

\* how far around the first and the last slice the Z positions are taken
MaxOffset == 25

\* Z positions around the first slice, around the last slice, and at 1000 mm
ZPositions ==
    LET first == SliceGeometry.origin[3]
        last == first + (SliceGeometry.size[3] - 1) * SliceGeometry.spacing[3]
    IN  { first + d : d \in -MaxOffset .. MaxOffset }
            \cup { last + d : d \in -MaxOffset .. MaxOffset }
            \cup { 4000 }

\* a square of two by two pixels whose points all have the Z position given
ContourAt(z) ==
    LET corner(x, y) == <<Physical(x, y, 0)[1], Physical(x, y, 0)[2], z>>
    IN  Contour(corner(0, 0) \o corner(1, 0) \o corner(1, 1) \o corner(0, 1),
                "", "CLOSED_PLANAR")

InitSlices ==
    \E z \in ZPositions :
        Construct(DatasetOfContours(<< ContourAt(z) >>), Image(SliceGeometry, {}, 0))

NextSlices == LoadMetadata \/ MakeBinaryMask

SpecSlices == InitSlices /\ [][NextSlices]_vars

(***************************************************************************)
(* Structure sets with one rectangle on the voxel grid                     *)
(***************************************************************************)
\* the rectangles <<x0, x1, y0, y1>> with voxel corners on the grid
RectanglesOnGrid ==
    { q \in (0 .. GridN - 1) \X (0 .. GridN - 1) \X (0 .. GridN - 1) \X (0 .. GridN - 1) :
        q[1] < q[2] /\ q[3] < q[4] }

\* ContourData with its points in the opposite order
Backwards(contour_data) ==
    LET points == Reshape(contour_data)
    IN  [i \in 1 .. Len(contour_data) |-> points[Len(points) - ((i - 1) \div 3)][((i - 1) % 3) + 1]]

\* a rectangle on slice z, its points listed in either sense
RectangleContours ==
    UNION { { Contour(Rectangle(q[1], q[2], q[3], q[4], z), "", "CLOSED_PLANAR"),
              Contour(Backwards(Rectangle(q[1], q[2], q[3], q[4], z)), "", "CLOSED_PLANAR") } :
            q \in RectanglesOnGrid, z \in 0 .. 1 }

InitRectangles ==
    \E contour \in RectangleContours :
        Construct(DatasetOfContours(<< contour >>), Image(ReferenceGeometry(SquareSize), {}, 0))

NextRectangles == LoadMetadata \/ MakeBinaryMask

SpecRectangles == InitRectangles /\ [][NextRectangles]_vars

(***************************************************************************)
(* Structure sets whose ROIContourSequence is not in the order of the ROIs *)
(***************************************************************************)
\* the structure sets of the registry with a referenced image: the contour
\* items in the order of the ROIs, reversed, or lacking the first ROI's
InitAssociation ==
    \E k \in 1 .. MaxRois : \E ds \in RegistryDatasets(k) :
        Construct(ds, Image(ReferenceGeometry(SquareSize), {}, 0))

NextAssociation == PruneRtstructRois \/ LoadMetadata \/ MakeBinaryMask

SpecAssociation == InitAssociation /\ [][NextAssociation]_vars

(***************************************************************************)
(* Vocabulary of the properties                                            *)
(***************************************************************************)
Done == pc = "done"

Called(op) == Done /\ call.op = op

\* every argument is an image: in memory, or a file that can be read
AllReadable == \A i \in 1 .. Len(call.input_data) : call.input_data[i].kind \in {"mem", "file"}

AllInMemory == \A i \in 1 .. Len(call.input_data) : call.input_data[i].kind = "mem"

Arg(i) == call.input_data[i].img

SharedGeometry == \A i \in 1 .. Len(call.input_data) : Arg(i).geom = Arg(1).geom

\* the call ended normally; with an output path it returned None
Returned ==
    /\ outcome.kind = "return"
    /\ call.output_path # "none" => IsNone(outcome.value)

\* the mask the call hands over: returned, or written to output_path
Delivered == IF call.output_path = "none" THEN outcome.value ELSE written

Raised(exc) == outcome = Raise(exc)

\* two voxels share a face
FaceAdjacent(u, v) == Abs(u[1] - v[1]) + Abs(u[2] - v[2]) + Abs(u[3] - v[3]) = 1

\* two voxels share a face, an edge or a corner (26-neighbourhood)
Touching(u, v) == u # v /\ \A i \in 1 .. 3 : Abs(u[i] - v[i]) <= 1

RECURSIVE FaceClosure(_, _)
FaceClosure(S, fg) ==
    LET T == S \cup { w \in fg : \E u \in S : FaceAdjacent(u, w) }
    IN  IF T = S THEN S ELSE FaceClosure(T, fg)

RECURSIVE FaceComponents(_)
\* the face components of fg: its classes under "joined by a chain of
\* face-sharing voxels of fg"
FaceComponents(fg) ==
    IF fg = {} THEN {}
    ELSE LET C == FaceClosure({CHOOSE v \in fg : TRUE}, fg)
         IN  {C} \cup FaceComponents(fg \ C)

PhysicalVolume(C, geom) == Cardinality(C) * geom.spacing[1] * geom.spacing[2] * geom.spacing[3]

\* the union of the face components of the mask whose volume is at least
\* (thr / ThrDen) * V_max
LargeIslands(mask, thr) ==
    LET comps == FaceComponents(mask.vox)
        vmax == MaxOf({ PhysicalVolume(C, mask.geom) : C \in comps })
    IN  UNION { C \in comps : PhysicalVolume(C, mask.geom) * ThrDen >= thr * vmax }

\* the union of the face components of the mask of the largest volume
LargestIslands(mask) ==
    LET comps == FaceComponents(mask.vox)
        vmax == MaxOf({ PhysicalVolume(C, mask.geom) : C \in comps })
    IN  UNION { C \in comps : PhysicalVolume(C, mask.geom) = vmax }

\* the last call made on the RTStruct object
LastCall(op) == pc = "object" /\ call.op = op

ReferenceSet == ~IsNone(self.referenced_image)

\* _load_metadata has run on the referenced image the object holds now
MetadataLoaded == ReferenceSet /\ self.metadata = self.referenced_image.geom

Registered(roi_name) == roi_name \in DOMAIN self.roi_dict

NumbersOf(items) == { items[i].ROINumber : i \in 1 .. Len(items) }

\* every ROIContourSequence item and every observation refers to the number
\* of a ROI of StructureSetROISequence
NoDanglingReference(ds) ==
    LET numbers == NumbersOf(GetStructureSetROISequence(ds))
        roi_contours == GetROIContourSequence(ds)
        observations == IF ds.hasRTROIObservationsSequence
                        THEN ds.RTROIObservationsSequence ELSE <<>>
    IN  /\ \A i \in 1 .. Len(roi_contours) : roi_contours[i].ReferencedROINumber \in numbers
        /\ \A i \in 1 .. Len(observations) : observations[i].ReferencedROINumber \in numbers

\* the ROIContourSequence item of a number, if there is exactly one
ItemsOfNumber(ds, number) ==
    SelectSeq(GetROIContourSequence(ds), LAMBDA item : item.ReferencedROINumber = number)

\* the pixels <<x, y>> of an nx x ny slice that a contour covers
CoveredPixels(contour, geom) ==
    LET points == Reshape(contour.ContourData)
        xs == [i \in 1 .. Len(points) |-> points[i][1] - geom.origin[1]]
        ys == [i \in 1 .. Len(points) |-> points[i][2] - geom.origin[2]]
    IN  { p \in (0 .. geom.size[1] - 1) \X (0 .. geom.size[2] - 1) :
            PointInPolygon(xs, ys, geom.spacing[1], geom.spacing[2], p[1], p[2]) }

RECURSIVE ComposedSlice(_, _, _)
\* the contours of one slice applied in order: a positive contour sets the
\* pixels it covers, a SUB contour clears them
ComposedSlice(pixels, contours, geom) ==
    IF contours = <<>> THEN pixels
    ELSE ComposedSlice(IF Head(contours).ContourStatus = "SUB"
                       THEN pixels \ CoveredPixels(Head(contours), geom)
                       ELSE pixels \cup CoveredPixels(Head(contours), geom),
                       Tail(contours), geom)

\* the volume of a ROI on a grid: every slice touched by a contour holds the
\* composition of its contours (with its holes filled if asked), pixel
\* (x, y) at voxel (x, y, z); the contours are polygons of three points or more
ComposedVolume(contours, geom, fill_holes) ==
    LET on(z) == SelectSeq(contours, LAMBDA contour : SliceIndex(contour, geom) = z)
        slice(z) == LET composed == ComposedSlice({}, on(z), geom)
                    IN  IF fill_holes /\ composed # {}
                        THEN BinaryFillHoles(composed, <<geom.size[1], geom.size[2]>>)
                        ELSE composed
    IN  UNION { { <<p[1], p[2], z>> : p \in slice(z) } : z \in 0 .. geom.size[3] - 1 }

(***************************************************************************)
(* Properties                                                              *)
(***************************************************************************)
\* C1: for a non-empty list of masks on one grid, combine_binary_masks hands
\* over a mask on that grid in which a voxel is set iff it is set in at least
\* one mask of the list, whichever masks of the list are all-false.
C1_CombineIsUnion ==
    ( /\ Called("combine_binary_masks")
      /\ Len(call.input_data) > 0
      /\ AllReadable /\ SharedGeometry
      /\ call.output_path # "bad" )
    => /\ Returned
       /\ Delivered.vox = UNION { Arg(i).vox : i \in 1 .. Len(call.input_data) }
       /\ Delivered.geom = Arg(1).geom

\* an all-false first mask, an all-false later mask and two masks that each
\* contribute a voxel of their own
C1_Witness ==
    /\ Called("combine_binary_masks")
    /\ Len(call.input_data) = 3
    /\ AllInMemory /\ SharedGeometry
    /\ Arg(1).vox = {}
    /\ Arg(2).vox # {}
    /\ Arg(3).vox # {} /\ Arg(3).vox # Arg(2).vox
    /\ Returned
    /\ outcome.value.vox = Arg(2).vox \cup Arg(3).vox

\* C2: for masks a and b on one grid, remove_overlapping_parts hands over a
\* mask on that grid in which a voxel is set iff it is set in a and not in b;
\* so subtract(A, A) is all-false and subtract(A, empty) is A.
C2_OverlapIsDifference ==
    ( /\ Called("remove_overlapping_parts")
      /\ AllReadable /\ SharedGeometry
      /\ call.output_path # "bad" )
    => /\ Returned
       /\ Delivered.vox = Arg(1).vox \ Arg(2).vox
       /\ Delivered.geom = Arg(1).geom
       /\ Arg(1).vox = Arg(2).vox => Delivered.vox = {}
       /\ Arg(2).vox = {} => Delivered.vox = Arg(1).vox

\* b removes some but not all of a
C2_Witness ==
    /\ Called("remove_overlapping_parts")
    /\ AllInMemory /\ SharedGeometry
    /\ Arg(2).vox # {}
    /\ Arg(2).vox \subseteq Arg(1).vox
    /\ Arg(2).vox # Arg(1).vox
    /\ Returned
    /\ outcome.value.vox = Arg(1).vox \ Arg(2).vox
    /\ outcome.value.vox # {}

\* C3: for a mask with a foreground voxel and thr in [0, 1], remove_islands_thr
\* hands over the mask whose foreground is the union of the components of
\* volume >= thr * V_max; thr = 0 gives the input, thr = 1 the components of
\* maximal volume, ties included.
C3_IslandsKeepLargeComponents ==
    ( /\ Called("remove_islands_thr")
      /\ AllReadable
      /\ Arg(1).vox # {}
      /\ 0 <= call.thr /\ call.thr <= ThrDen
      /\ call.output_path # "bad" )
    => /\ Returned
       /\ Delivered.geom = Arg(1).geom
       /\ Delivered.vox = LargeIslands(Arg(1), call.thr)
       /\ call.thr = 0 => Delivered.vox = Arg(1).vox
       /\ call.thr = ThrDen => Delivered.vox = LargestIslands(Arg(1))

\* a threshold strictly inside (0, 1) that removes one island and keeps another
C3_Witness ==
    /\ Called("remove_islands_thr")
    /\ AllInMemory
    /\ 0 < call.thr /\ call.thr < ThrDen
    /\ Returned
    /\ call.output_path = "none"
    /\ outcome.value.vox # {}
    /\ outcome.value.vox # Arg(1).vox
    /\ outcome.value.vox \subseteq Arg(1).vox

\* C4: combine_binary_masks and remove_overlapping_parts raise RuntimeError
\* and hand over nothing whenever an operand differs from the first in size,
\* spacing, origin or direction, also when that operand is all-false.
C4_GeometryMismatchRaises ==
    ( /\ Called("combine_binary_masks") \/ Called("remove_overlapping_parts")
      /\ AllReadable
      /\ ~SharedGeometry )
    => /\ Raised("RuntimeError")
       /\ IsNone(written)

\* an all-false mask on a shifted origin at the end of a list
C4_Witness ==
    /\ Called("combine_binary_masks")
    /\ Len(call.input_data) = 3
    /\ AllInMemory
    /\ Arg(1).vox # {} /\ Arg(2).vox # {}
    /\ Arg(2).geom = Arg(1).geom
    /\ Arg(3).vox = {}
    /\ Arg(3).geom.origin # Arg(1).geom.origin
    /\ Raised("RuntimeError")

\* C5: the mask combine_binary_masks returns for masks on one grid does not
\* depend on the order of the list; in particular [A, B] and [B, A] agree.
C5_CombineOrderIndependent ==
    ( /\ Called("combine_binary_masks")
      /\ AllReadable /\ SharedGeometry
      /\ call.output_path = "none" )
    => \A p \in Permutations(1 .. Len(call.input_data)) :
          LET permuted == [i \in 1 .. Len(call.input_data) |-> call.input_data[p[i]]]
              other == combine_binary_masks(permuted, "none", HeapOf(permuted)).outcome
          IN  /\ other.kind = outcome.kind
              /\ other.value.vox = outcome.value.vox
              /\ other.value.geom = outcome.value.geom

\* two masks neither of which contains the other
C5_Witness ==
    /\ Called("combine_binary_masks")
    /\ Len(call.input_data) = 2
    /\ AllInMemory /\ SharedGeometry
    /\ call.output_path = "none"
    /\ ~(Arg(1).vox \subseteq Arg(2).vox)
    /\ ~(Arg(2).vox \subseteq Arg(1).vox)
    /\ Returned
    /\ outcome.value.vox = Arg(1).vox \cup Arg(2).vox

\* C6: given in-memory masks, the three operations leave every input mask as
\* it was, whether they succeed or fail, and a mask they return is an object
\* of its own, none of the inputs.
C6_InputsUntouchedResultNew ==
    ( Done /\ AllInMemory )
    => /\ heap = HeapOf(call.input_data)
       /\ (outcome.kind = "return" /\ ~IsNone(outcome.value))
            => outcome.value.obj \notin 1 .. Len(call.input_data)

\* C7: remove_islands_thr with thr < 0 or thr > 1 raises ValueError before it
\* looks at, reads or labels the input and before it writes anything; with
\* thr = 0 and thr = 1 it raises no ValueError, and on a readable input with
\* a usable output it ends normally.
C7_ThresholdValidatedFirst ==
    Called("remove_islands_thr")
    => /\ (call.thr < 0 \/ call.thr > ThrDen)
            => /\ Raised("ValueError")
               /\ trace = <<>>
               /\ warnings = <<>>
               /\ IsNone(written)
       /\ call.thr \in {0, ThrDen}
            => /\ outcome.exc # "ValueError"
               /\ (AllReadable /\ call.output_path # "bad") => Returned

\* a threshold above 1 on a file that would be read and an output that would
\* be written
C7_Witness ==
    /\ Called("remove_islands_thr")
    /\ call.thr > ThrDen
    /\ call.input_data[1].kind = "file"
    /\ Arg(1).vox # {}
    /\ call.output_path = "ok"
    /\ Raised("ValueError")

\* C8 as claimed: two foreground voxels that touch, be it only along an edge
\* or at a corner, are kept or removed together by remove_islands_thr.
C8_TouchingVoxelsShareFate ==
    ( /\ Called("remove_islands_thr")
      /\ AllReadable
      /\ Returned
      /\ call.output_path # "bad" )
    => \A u, v \in Arg(1).vox :
          Touching(u, v) => (u \in Delivered.vox <=> v \in Delivered.vox)

\* C8 as amended: remove_islands_thr labels components under face
\* connectivity: foreground voxels joined by a chain of face-sharing
\* foreground voxels are kept or removed together, and voxels not so joined,
\* also when they touch along an edge or at a corner, are in different
\* components, each kept or removed by its own volume.
C8_FaceConnectivity ==
    ( /\ Called("remove_islands_thr")
      /\ AllReadable
      /\ Returned
      /\ 0 <= call.thr /\ call.thr <= ThrDen
      /\ call.output_path # "bad" )
    => LET comps == FaceComponents(Arg(1).vox)
           large == LargeIslands(Arg(1), call.thr)
       IN  \A C \in comps :
              /\ C \subseteq Delivered.vox \/ C \cap Delivered.vox = {}
              /\ \A D \in comps :
                    (C \subseteq large /\ D \cap large = {})
                    => (C \subseteq Delivered.vox /\ D \cap Delivered.vox = {})

\* two voxels that touch without sharing a face, one kept and one removed
C8_Witness ==
    /\ Called("remove_islands_thr")
    /\ AllInMemory
    /\ Returned
    /\ call.output_path = "none"
    /\ \E u, v \in Arg(1).vox :
          /\ Touching(u, v)
          /\ ~FaceAdjacent(u, v)
          /\ u \in outcome.value.vox
          /\ v \notin outcome.value.vox

\* C9: in combine_binary_masks on masks of one grid every all-false mask of
\* the list is answered by a warning and no error and adds no voxel; when all
\* masks are all-false the call ends normally with an all-false mask on the
\* first mask's grid and at least one warning.
C9_EmptyMasksWarn ==
    ( /\ Called("combine_binary_masks")
      /\ Len(call.input_data) > 0
      /\ AllReadable /\ SharedGeometry
      /\ call.output_path # "bad" )
    => /\ Returned
       /\ \A i \in 1 .. Len(call.input_data) :
             Arg(i).vox = {}
             => \E k \in 1 .. Len(warnings) :
                   warnings[k] \in { <<"first_empty", i>>, <<"empty", i>> }
       /\ Delivered.vox =
             UNION { Arg(i).vox : i \in { j \in 1 .. Len(call.input_data) : Arg(j).vox # {} } }
       /\ (\A i \in 1 .. Len(call.input_data) : Arg(i).vox = {})
             => /\ Delivered.vox = {}
                /\ Delivered.geom = Arg(1).geom
                /\ Len(warnings) >= 1

\* a list of two all-false masks
C9_Witness ==
    /\ Called("combine_binary_masks")
    /\ Len(call.input_data) = 2
    /\ AllInMemory /\ SharedGeometry
    /\ Arg(1).vox = {} /\ Arg(2).vox = {}
    /\ call.output_path = "none"
    /\ Returned
    /\ outcome.value.vox = {}
    /\ Len(warnings) = 2

\* C10: combine_binary_masks on an empty list raises ValueError before it
\* reads or writes anything.
C10_EmptyListRaises ==
    ( Called("combine_binary_masks") /\ Len(call.input_data) = 0 )
    => /\ Raised("ValueError")
       /\ trace = <<>>
       /\ IsNone(written)

\* an empty list with an output path that could be written
C10_Witness ==
    /\ Called("combine_binary_masks")
    /\ Len(call.input_data) = 0
    /\ call.output_path = "ok"
    /\ Raised("ValueError")

\* C11: remove_islands_thr on an all-false mask hands over (returns, or writes
\* when output_path is given) an all-false mask of the same size and geometry,
\* for every thr in [0, 1], and raises nothing.
C11_EmptyMaskStaysEmpty ==
    ( /\ Called("remove_islands_thr")
      /\ AllReadable
      /\ Arg(1).vox = {}
      /\ 0 <= call.thr /\ call.thr <= ThrDen
      /\ call.output_path # "bad" )
    => /\ Returned
       /\ ~IsNone(Delivered)
       /\ Delivered.vox = {}
       /\ Delivered.geom = Arg(1).geom

\* an all-false mask read from a file and written back, thr strictly inside (0, 1)
C11_Witness ==
    /\ Called("remove_islands_thr")
    /\ call.input_data[1].kind = "file"
    /\ Arg(1).vox = {}
    /\ 0 < call.thr /\ call.thr < ThrDen
    /\ call.output_path = "ok"
    /\ Returned
    /\ written.vox = {}
    /\ written.geom = Arg(1).geom

\* C12 as claimed: remove_islands_thr hands every failure to its caller as an
\* exception; when it returns None the result has been written to output_path.
C12_NoneMeansWritten ==
    ( /\ Called("remove_islands_thr")
      /\ outcome.kind = "return"
      /\ IsNone(outcome.value) )
    => /\ call.output_path = "ok"
       /\ ~IsNone(written)
       /\ warnings = <<>>

\* C13 as claimed: for every size (nx, ny, nz) of the reference grid, nx # ny
\* included, _make_binary_mask returns a volume of that size and geometry in
\* which every slice touched by a contour holds the composition of its
\* contours, pixel (x, y) at voxel (x, y, z), and every other slice is all-false.
C13_VolumeOnAnyGrid ==
    ( /\ LastCall("_make_binary_mask")
      /\ MetadataLoaded
      /\ Registered(call.args.roi_name)
      /\ Len(ItemsOfNumber(self.rtstruct, self.roi_dict[call.args.roi_name][2])) = 1 )
    => LET item == ItemsOfNumber(self.rtstruct, self.roi_dict[call.args.roi_name][2])[1]
           contours == IF item.hasContourSequence THEN item.ContourSequence ELSE <<>>
       IN  /\ outcome.kind = "return"
           /\ IsImage(outcome.value)
           /\ outcome.value.geom = self.referenced_image.geom
           /\ outcome.value.vox = ComposedVolume(contours, self.metadata, call.args.fill_holes)

\* C14 as claimed: get_binary_mask returns the mask of the ROI, an image with
\* the geometry of the referenced image, whenever a referenced image is set
\* and the name is registered; without a referenced image it returns False
\* with a warning and raises nothing.
C14_GetBinaryMaskReturnsMask ==
    LastCall("get_binary_mask")
    => /\ (ReferenceSet /\ Registered(call.args.roi_name))
            => /\ outcome.kind = "return"
               /\ IsImage(outcome.value)
               /\ outcome.value.geom = self.referenced_image.geom
       /\ ~ReferenceSet
            => /\ outcome = Return(PyFalse)
               /\ warnings # <<>>

\* C15 as claimed: get_save_binary_mask writes the mask and returns True
\* whenever a referenced image is set, the name is registered and the mask is
\* not empty or prune_empty is False; it returns False without a referenced image.
C15_SaveWritesAndReturnsTrue ==
    LastCall("get_save_binary_mask")
    => /\ ( /\ ReferenceSet
            /\ Registered(call.args.roi_name)
            /\ ~call.args.prune_empty
            /\ call.output_path = "ok" )
            => /\ outcome = Return(PyTrue)
               /\ IsImage(written)
       /\ ~ReferenceSet => outcome = Return(PyFalse)

\* C16 as claimed: get_save_binary_mask raises ValueError to its caller when
\* the name is not registered (and when the mask is empty and prune_empty is
\* True), and writes no file.
C16_SaveRaisesValueError ==
    ( /\ LastCall("get_save_binary_mask")
      /\ ReferenceSet
      /\ ~Registered(call.args.roi_name) )
    => /\ Raised("ValueError")
       /\ IsNone(written)

PruneKeepsExactly ==
    (call'.op = "prune_rtstruct_rois" /\ outcome'.kind = "return")
    => LET keep == call'.args.rois_to_keep
           kept == SelectSeq(self.rtstruct.StructureSetROISequence,
                             LAMBDA roi : roi.ROIName \in keep)
           pruned == self'.rtstruct
           observations == IF pruned.hasRTROIObservationsSequence
                           THEN pruned.RTROIObservationsSequence ELSE <<>>
       IN  /\ pruned.StructureSetROISequence = kept
           /\ \A i \in 1 .. Len(GetROIContourSequence(pruned)) :
                 pruned.ROIContourSequence[i].ReferencedROINumber \in NumbersOf(kept)
           /\ \A i \in 1 .. Len(observations) :
                 observations[i].ReferencedROINumber \in NumbersOf(kept)

\* C18: prune_rtstruct_rois(keep) keeps exactly the ROIs named in keep, in
\* order, with only their contour items and observations; from a structure
\* set without dangling reference no sequence of prune and rename calls
\* leads to a reference to the number of a ROI that is gone.
C18_PruneCascades ==
    /\ [][PruneKeepsExactly]_vars
    /\ [](pc = "object" => NoDanglingReference(self.rtstruct))

\* the first of two ROIs pruned away together with its contour item and its
\* observation
C18_Witness ==
    /\ LastCall("prune_rtstruct_rois")
    /\ outcome.kind = "return"
    /\ NumbersOf(self.rtstruct.StructureSetROISequence) = {2}
    /\ self.rtstruct.StructureSetROISequence[1].ROIName \in call.args.rois_to_keep
    /\ Len(self.rtstruct.ROIContourSequence) = 1
    /\ self.rtstruct.ROIContourSequence[1].ReferencedROINumber = 2
    /\ self.rtstruct.RTROIObservationsSequence = << Observation(2) >>

\* rename_rois(map) gives every ROI whose name is a key of the map the mapped
\* name, once, and changes nothing else of the structure set
RenameOnlyNames ==
    call'.op = "rename_rois"
    => LET rename_map == call'.args.rename_map
           before == GetStructureSetROISequence(self.rtstruct)
           after == GetStructureSetROISequence(self'.rtstruct)
       IN  /\ outcome' = Return(NoneImage)
           /\ Len(after) = Len(before)
           /\ \A i \in 1 .. Len(before) :
                 /\ after[i].ROINumber = before[i].ROINumber
                 /\ after[i].ROIName = IF before[i].ROIName \in DOMAIN rename_map
                                       THEN rename_map[before[i].ROIName]
                                       ELSE before[i].ROIName
           /\ self'.rtstruct.hasStructureSetROISequence = self.rtstruct.hasStructureSetROISequence
           /\ self'.rtstruct.hasROIContourSequence = self.rtstruct.hasROIContourSequence
           /\ self'.rtstruct.ROIContourSequence = self.rtstruct.ROIContourSequence
           /\ self'.rtstruct.hasRTROIObservationsSequence
                 = self.rtstruct.hasRTROIObservationsSequence
           /\ self'.rtstruct.RTROIObservationsSequence = self.rtstruct.RTROIObservationsSequence

\* C19: rename_rois(map) changes only the ROIName of the ROIs whose name
\* before the call is a key of the map, to the mapped value; numbers, order,
\* contour data and observations stay, other ROIs keep their name, and a ROI
\* is renamed at most once per call ({A: B, B: C} turns A into B, not C).
C19_RenameOnlyNames == [][RenameOnlyNames]_vars

\* the map {GTV: CTV, CTV: PTV} applied to the ROIs GTV and CTV
C19_Witness ==
    /\ LastCall("rename_rois")
    /\ DOMAIN call.args.rename_map = {"GTV", "CTV"}
    /\ call.args.rename_map["GTV"] = "CTV"
    /\ call.args.rename_map["CTV"] = "PTV"
    /\ self.rtstruct.StructureSetROISequence = << Roi("CTV", 1), Roi("PTV", 2) >>
    /\ Len(self.rtstruct.ROIContourSequence) = 2

\* C20 as claimed: rename_rois rejects a renaming after which two ROIs would
\* bear one name and leaves the structure set as it was, so that the names of
\* the ROIs of the structure set stay pairwise different.
C20_NamesStayUnique ==
    pc = "object"
    => LET rois == GetStructureSetROISequence(self.rtstruct)
       IN  \A i, j \in 1 .. Len(rois) : rois[i].ROIName = rois[j].ROIName => i = j

\* a contour that takes part in a mask: three points or more, on a slice of
\* the grid
Usable(contour, geom) ==
    /\ Len(contour.ContourData) >= 9
    /\ SliceInRange(SliceIndex(contour, geom), geom.size)

\* the usable contours of the ROI of a number: none if ROIContourSequence
\* has no item for it or the item has no ContourSequence
UsableContoursOf(ds, number, geom) ==
    LET items == ItemsOfNumber(ds, number)
    IN  IF items = <<>> \/ ~items[1].hasContourSequence THEN <<>>
        ELSE SelectSeq(items[1].ContourSequence, LAMBDA contour : Usable(contour, geom))

\* C21 as claimed: for a ROI without usable contour (no contour item, no
\* ContourSequence, or every contour too short or off the grid)
\* _make_binary_mask fails with RoiHasNoContours or returns an all-false
\* volume with the reference geometry and logs a warning; it never returns the
\* all-false volume without a warning.
C21_EmptyNeverSilent ==
    ( /\ LastCall("_make_binary_mask")
      /\ MetadataLoaded
      /\ Registered(call.args.roi_name)
      /\ UsableContoursOf(self.rtstruct, self.roi_dict[call.args.roi_name][2],
                          self.metadata) = <<>> )
    => \/ Raised("RoiHasNoContours")
       \/ /\ outcome.kind = "return"
          /\ IsImage(outcome.value)
          /\ outcome.value.vox = {}
          /\ outcome.value.geom = self.referenced_image.geom
          /\ warnings # <<>>

\* the volume assembled from the two coplanar contours of GTV, and the second
\* volume, at the end of the round trip
Assembled == call.args.assembled

SecondVolume == call.input_data[2].img

RoundTripDone ==
    /\ pc = "subtracted"
    /\ Len(UsableContoursOf(self.rtstruct, 1, self.metadata)) = 2
    /\ Assembled.vox = ComposedVolume(UsableContoursOf(self.rtstruct, 1, self.metadata),
                                      self.metadata, FALSE)

\* C22 as claimed: for the volume V of a ROI with two coplanar non-overlapping
\* contours and a voxel-identical second volume V2 on the same grid,
\* remove_overlapping_parts(combine_binary_masks([V, V2]), V2) equals V.
C22_RoundTripRestores ==
    (RoundTripDone /\ SecondVolume.vox = Assembled.vox)
    => /\ outcome.kind = "return"
       /\ IsImage(outcome.value)
       /\ outcome.value.vox = Assembled.vox

\* C22 amended: the round trip returns V minus V2 on the grid of V, which for
\* a second volume voxel-identical to V is the all-false volume.
C22_RoundTripIsDifference ==
    RoundTripDone
    => /\ outcome.kind = "return"
       /\ IsImage(outcome.value)
       /\ outcome.value.geom = Assembled.geom
       /\ outcome.value.vox = Assembled.vox \ SecondVolume.vox
       /\ SecondVolume.vox = Assembled.vox => outcome.value.vox = {}

\* the round trip of a volume of two rectangles with its copy
C22_Witness ==
    /\ RoundTripDone
    /\ Assembled.vox # {}
    /\ SecondVolume.vox = Assembled.vox
    /\ SecondVolume.geom = Assembled.geom
    /\ outcome.kind = "return"
    /\ outcome.value.vox = {}

\* the contours of the ROI asked for, as its ROIContourSequence item lists them
ContoursAsked ==
    LET items == ItemsOfNumber(self.rtstruct, self.roi_dict[call.args.roi_name][2])
    IN  IF items = <<>> \/ ~items[1].hasContourSequence THEN <<>>
        ELSE items[1].ContourSequence

UsableAsked == SelectSeq(ContoursAsked, LAMBDA contour : Usable(contour, self.metadata))

\* C23 as claimed: a contour of fewer than nine coordinate values (lengths
\* that are no multiple of 3 included) or off the grid raises no error and
\* sets no voxel: _make_binary_mask returns the volume composed of the other
\* contours of the ROI, as if the contour were absent.
C23_MalformedContourIsInert ==
    ( /\ LastCall("_make_binary_mask")
      /\ MetadataLoaded
      /\ Registered(call.args.roi_name) )
    => /\ outcome.kind = "return"
       /\ IsImage(outcome.value)
       /\ outcome.value.vox = ComposedVolume(UsableAsked, self.metadata, call.args.fill_holes)

\* the usable contours of the ROI asked for that lie on slice z, in their order
OnSlice(z) ==
    SelectSeq(UsableAsked, LAMBDA contour : SliceIndex(contour, self.metadata) = z)

\* the contour covers pixel (x, y) of the grid
Covers(contour, geom, x, y) ==
    LET points == Reshape(contour.ContourData)
        xs == [i \in 1 .. Len(points) |-> points[i][1] - geom.origin[1]]
        ys == [i \in 1 .. Len(points) |-> points[i][2] - geom.origin[2]]
    IN  PointInPolygon(xs, ys, geom.spacing[1], geom.spacing[2], x, y)

\* the contours of a list that cover pixel (x, y), by position in the list
Covering(contours, x, y) ==
    { i \in 1 .. Len(contours) : Covers(contours[i], self.metadata, x, y) }

IsSub(contour) == contour.ContourStatus = "SUB"

\* no SUB contour of the list comes before a positive one
PositiveFirst(contours) ==
    \A i, j \in 1 .. Len(contours) : (IsSub(contours[i]) /\ ~IsSub(contours[j])) => j < i

\* _make_binary_mask has returned the volume of a registered ROI
VolumeReturned ==
    /\ LastCall("_make_binary_mask")
    /\ MetadataLoaded
    /\ Registered(call.args.roi_name)
    /\ outcome.kind = "return"
    /\ IsImage(outcome.value)

\* C24: in a volume returned without hole filling a voxel (x, y, z) is set
\* if and only if some contour of slice z covers pixel (x, y) and the last
\* contour of the sequence that does is positive; where every positive contour
\* of the slice precedes every SUB contour, the slice is the union of the
\* positive regions minus the union of the hole regions.
C24_ContoursInSequenceOrder ==
    (VolumeReturned /\ ~call.args.fill_holes)
    => \A z \in 0 .. self.metadata.size[3] - 1 :
          LET on == OnSlice(z)
              slice == { <<v[1], v[2]>> : v \in { u \in outcome.value.vox : u[3] = z } }
              positive == UNION { CoveredPixels(on[i], self.metadata) :
                                    i \in { k \in 1 .. Len(on) : ~IsSub(on[k]) } }
              holes == UNION { CoveredPixels(on[i], self.metadata) :
                                 i \in { k \in 1 .. Len(on) : IsSub(on[k]) } }
          IN  /\ \A x \in 0 .. self.metadata.size[1] - 1, y \in 0 .. self.metadata.size[2] - 1 :
                    <<x, y>> \in slice
                        <=> /\ Covering(on, x, y) # {}
                            /\ ~IsSub(on[MaxOf(Covering(on, x, y))])
              /\ PositiveFirst(on) => slice = positive \ holes

\* a hole listed before the square that covers it: the square is whole
C24_Witness ==
    /\ VolumeReturned
    /\ ~call.args.fill_holes
    /\ Len(OnSlice(0)) >= 2
    /\ IsSub(OnSlice(0)[1])
    /\ ~IsSub(OnSlice(0)[Len(OnSlice(0))])
    /\ ~PositiveFirst(OnSlice(0))
    /\ Cardinality({ v \in outcome.value.vox : v[3] = 0 }) = GridN * GridN

RECURSIVE RegionOf(_, _)
\* the pixels of a set joined to S by a chain of pixels of the set that share
\* an edge
RegionOf(S, pixels) ==
    LET grown == S \cup { q \in pixels : \E p \in S : EdgeAdjacent(p, q) }
    IN  IF grown = S THEN S ELSE RegionOf(grown, pixels)

\* the background pixels of an nx x ny slice that no chain of background
\* pixels joins to a background pixel on the border of the slice
Enclosed(slice, nx, ny) ==
    LET background == ((0 .. nx - 1) \X (0 .. ny - 1)) \ slice
        border == { p \in background : p[1] \in {0, nx - 1} \/ p[2] \in {0, ny - 1} }
    IN  background \ RegionOf(border, background)

\* slice z of the volume returned, as pixels <<x, y>>
SliceReturned(z) == { <<v[1], v[2]>> : v \in { u \in outcome.value.vox : u[3] = z } }

\* slice z as its contours compose it, before any hole filling
SliceComposed(z) == ComposedSlice({}, OnSlice(z), self.metadata)

\* the ROI is the whole-slice square with the hole inside it, in this order
SquareWithHole ==
    ContoursAsked = << Contour(Rectangle(0, GridN - 1, 0, GridN - 1, 0), "", "CLOSED_PLANAR"),
                       Contour(Rectangle(1, GridN - 2, 1, GridN - 2, 0), "SUB", "CLOSED_PLANAR") >>

Ring ==
    { p \in (0 .. GridN - 1) \X (0 .. GridN - 1) :
        p[1] \in {0, GridN - 1} \/ p[2] \in {0, GridN - 1} }

\* C26: a positive square with a SUB square inside it gives the ring without
\* hole filling and the whole square with it; with fill_holes every slice of
\* the volume is its composed slice plus the background regions that
\* foreground encloses, and a slice that is composed all-false stays all-false.
C26_FillHolesClosesRing ==
    VolumeReturned
    => /\ SquareWithHole
            => SliceReturned(0) = (IF call.args.fill_holes
                                   THEN (0 .. GridN - 1) \X (0 .. GridN - 1)
                                   ELSE Ring)
       /\ call.args.fill_holes
            => \A z \in 0 .. self.metadata.size[3] - 1 :
                  LET composed == SliceComposed(z)
                  IN  /\ SliceReturned(z) =
                            composed \cup Enclosed(composed, self.metadata.size[1],
                                                   self.metadata.size[2])
                      /\ composed = {} => SliceReturned(z) = {}

\* the ring closed by hole filling
C26_Witness ==
    /\ VolumeReturned
    /\ call.args.fill_holes
    /\ SquareWithHole
    /\ SliceComposed(0) = Ring
    /\ Cardinality(SliceReturned(0)) = GridN * GridN

\* k is (z - origin_z) / spacing_z rounded: no integer is nearer, and of two
\* that are equally near k is the even one
RoundsTo(z, geom, k) ==
    LET twice == 2 * Abs(z - geom.origin[3] - k * geom.spacing[3])
    IN  \/ twice < geom.spacing[3]
        \/ twice = geom.spacing[3] /\ k % 2 = 0

\* the slices of the volume returned that hold a voxel
SlicesSet == { v[3] : v \in outcome.value.vox }

\* the ROI asked for has one contour, of three points or more
OneContour == Len(ContoursAsked) = 1 /\ Len(ContoursAsked[1].ContourData) >= 9

\* C25: the contour whose first point has Z position z lies on slice
\* round((z - origin_z) / spacing_z): the volume returned for a ROI of one
\* contour has its voxels on that slice and no other, and is all-false when
\* that index is below 0 or not below size_z; with origin_z = -100 mm and
\* spacing_z = 2.5 mm, z = -95 mm is slice 2, and z = 1000 mm is off a grid of
\* 50 slices.
C25_SliceIndexRounds ==
    (VolumeReturned /\ OneContour)
    => LET z == ContoursAsked[1].ContourData[3]
           geom == self.metadata
           low == (z - geom.origin[3]) \div geom.spacing[3]
       IN  /\ \E k \in {low, low + 1} :
                 /\ RoundsTo(z, geom, k)
                 /\ SlicesSet = (IF k >= 0 /\ k < geom.size[3] THEN {k} ELSE {})
           /\ (geom = SliceGeometry /\ z = -380) => SlicesSet = {2}
           /\ (geom = SliceGeometry /\ z = 4000) => outcome.value.vox = {}

\* the contour at -95 mm on the grid that starts at -100 mm with slices
\* 2.5 mm apart
C25_Witness ==
    /\ VolumeReturned
    /\ OneContour
    /\ self.metadata.origin[3] = -400
    /\ self.metadata.spacing[3] = 10
    /\ self.metadata.size[3] = 50
    /\ ContoursAsked[1].ContourData[3] = -380
    /\ SlicesSet = {2}

\* the one contour of the ROI asked for is the rectangle q on slice z
IsRectangle(q, z) ==
    /\ OneContour
    /\ ContoursAsked[1].ContourData \in { Rectangle(q[1], q[2], q[3], q[4], z),
                                          Backwards(Rectangle(q[1], q[2], q[3], q[4], z)) }

\* the pixels whose centre lies in the rectangle, its boundary included
PixelsIn(q) == (q[1] .. q[2]) \X (q[3] .. q[4])

\* C27: the volume returned for a ROI of one axis-aligned rectangle with
\* voxel corners on the grid has, on the slice of the rectangle, exactly the
\* pixels whose centre lies in the rectangle or on its boundary, and no voxel
\* on another slice.
C27_RectangleBoundaryInclusive ==
    VolumeReturned
    => \A q \in RectanglesOnGrid, z \in 0 .. self.metadata.size[3] - 1 :
          IsRectangle(q, z)
             => /\ SliceReturned(z) = PixelsIn(q)
                /\ SlicesSet = {z}

\* a rectangle that reaches neither the first nor the last row and column
C27_Witness ==
    /\ VolumeReturned
    /\ IsRectangle(<<1, GridN - 2, 1, GridN - 2>>, 0)
    /\ SliceReturned(0) = (1 .. GridN - 2) \X (1 .. GridN - 2)

\* the contours of the ROI asked for that take no part in its mask
SkippedAsked == SelectSeq(ContoursAsked, LAMBDA contour : ~Usable(contour, self.metadata))

\* C28 as claimed: every contour that _make_binary_mask skips, for having too
\* few points or a slice index off the grid, is reported with a warning, so
\* that a volume returned for a ROI with such a contour comes with at least
\* one warning per skipped contour.
C28_SkippedContoursWarned ==
    VolumeReturned => Len(warnings) >= Len(SkippedAsked)

\* C29 as claimed: whatever rename_rois and prune_rtstruct_rois calls were
\* made, roi_dict has exactly the current ROINames of StructureSetROISequence
\* as keys and maps each to (position in the sequence, ROINumber) of a ROI of
\* that name.
C29_RegistryFollowsNames ==
    pc = "object"
    => LET rois == GetStructureSetROISequence(self.rtstruct)
       IN  /\ DOMAIN self.roi_dict = { rois[i].ROIName : i \in 1 .. Len(rois) }
           /\ \A name \in DOMAIN self.roi_dict :
                 \E i \in 1 .. Len(rois) :
                    /\ rois[i].ROIName = name
                    /\ self.roi_dict[name] = <<i - 1, rois[i].ROINumber>>

\* C30 as claimed: the volume returned for a ROI name is composed of the
\* contours of the ROIContourSequence item whose ReferencedROINumber is the
\* ROINumber of that ROI (and is all-false if there is no such item), also
\* when ROIContourSequence is in another order than StructureSetROISequence
\* or lacks the item of some ROI, and after any pruning.
C30_ContoursByNumber ==
    VolumeReturned
    => outcome.value.vox = ComposedVolume(ContoursAsked, self.metadata, call.args.fill_holes)

====
